---- MODULE Spec2Model ----
(***************************************************************************)
(* A model of the DWARF decoder of sym-exposer (src/dwarf/dwarf.go) and of *)
(* the function table it writes to (src/elf/elf.go).                       *)
(*                                                                         *)
(* SpecLine : ReadLineInfo + readLineNumberProgram + addFuncAddrLineInfo.  *)
(*            One action per opcode of the line-number program.  The bytes *)
(*            of the section are an input: every action draws the bytes it *)
(*            examines at the cursor from a small set, and decodes them    *)
(*            the way the code does.                                       *)
(*                                                                         *)
(* SpecInfo : ReadDebugInfo + NewDwarf32Cuh: the walk over the units and    *)
(*            the entries of .debug_info.                                  *)
(* SpecFmt  : the test of the first 4 bytes of unit_length in              *)
(*            NewDwarf32Cuh, ReadLineInfo and ReadAranges.                 *)
(*                                                                         *)
(* Go integers are unsigned 64-bit here; the model keeps every register    *)
(* inside small bounds by guards, so no 64-bit wrap-around is reached.     *)
(* 8-bit arithmetic of the code is kept (% 256).                           *)
(***************************************************************************)
EXTENDS Integers, Sequences, FiniteSets, TLC

(***************************************************************************)
(* Bounds of the model.                                                    *)
(***************************************************************************)
\* longest line-number program (bytes between lnpStart and lnpEnd)
MaxLen == 5
\* a line-number program of this many bytes is run as well: it holds an
\* extended opcode whose length takes the ten bytes of a 64-bit uLEB128
WideLen == 12
\* largest value of the address register
MaxAddr == 5
\* largest value of the line register
MaxLine == 2
\* .debug_line is at most this long
MaxSecLen == 60
\* .debug_info is this long
MaxInfoLen == 24
\* a slice handed to ReaduLEB128 or ReadsLEB128 on its own is at most this long
MaxLebLen == 3
\* the values -MaxLebVal..MaxLebVal are among those encoded for them
MaxLebVal == 130
\* directories_count of a version 5 header is at most this
MaxDirs == 3
\* an abbreviation table holds at most this many declarations
MaxAbbrevs == 2
\* a .debug_aranges section holds at most this many sub-tables
MaxArTables == 2

(***************************************************************************)
(* Program constants.                                                      *)
(***************************************************************************)
DWARF_32BIT_FORMAT == 1
DWARF_64BIT_FORMAT == 2

DW_LNS_copy == 1
DW_LNS_advance_pc == 2
DW_LNS_advance_line == 3
DW_LNS_set_file == 4
DW_LNS_set_column == 5
DW_LNS_negate_stmt == 6
DW_LNS_set_basic_block == 7
DW_LNS_const_add_pc == 8
DW_LNS_fixed_advance_pc == 9
DW_LNS_set_prologue_end == 10
DW_LNS_set_epilogue_begin == 11
DW_LNS_set_isa == 12

DW_LNE_end_sequence == 1
DW_LNE_set_address == 2
DW_LNE_define_file == 3
DW_LNE_set_discriminator == 4
DW_LNE_lo_user == 128
DW_LNE_hi_user == 255

DW_UT_compile == 1
DW_UT_type == 2
DW_UT_partial == 3
DW_UT_skeleton == 4
DW_UT_split_compile == 5
DW_UT_split_type == 6

DW_TAG_compile_unit == 17
DW_TAG_subprogram == 46
DW_TAG_variable == 52

DW_AT_name == 3
DW_AT_low_pc == 17
DW_AT_high_pc == 18
DW_AT_specification == 71
DW_AT_linkage_name == 110

DW_FORM_addr == 1
DW_FORM_data4 == 6
DW_FORM_string == 8
DW_FORM_ref4 == 19
DW_FORM_exprloc == 24
DW_AT_location == 2
DW_AT_comp_dir == 27
DW_AT_data_member_location == 56
DW_FORM_block == 9
DW_FORM_implicit_const == 33
DW_AT_decl_file == 58
DW_CHILDREN_yes == 1
DW_OP_const1u == 8
DW_OP_fbreg == 145
DW_OP_nop == 150
DW_OP_call_frame_cfa == 156
DW_OP_lo_user == 224
DW_OP_hi_user == 255
DW_FORM_data1 == 11
DW_FORM_line_strp == 31
DW_LNCT_path == 1
DW_LNCT_directory_index == 2

(***************************************************************************)
(* Bytes and the primitive codec (src/binutil/binutil.go, ReaduLEB128,     *)
(* ReadsLEB128).                                                           *)
(***************************************************************************)
RECURSIVE Pow(_, _)
Pow(b, e) == IF e = 0 THEN 1 ELSE b * Pow(b, e - 1)

\* the first n bytes of bs dropped (bs[n:] of Go for n <= len)
Drop(bs, n) == IF n >= Len(bs) THEN << >> ELSE SubSeq(bs, n + 1, Len(bs))

\* a is a prefix of b, or b is a prefix of a
Agree(a, b) ==
    \A i \in 1..(IF Len(a) < Len(b) THEN Len(a) ELSE Len(b)) : a[i] = b[i]

\* the little-endian value of bytes i..w of bs
RECURSIVE LeSum(_, _, _)
LeSum(bs, i, w) == IF i > w THEN 0 ELSE bs[i] + 256 * LeSum(bs, i + 1, w)

\* binutil.FromLeToUInt16/32/64: a buffer that is too short gives 0 (the
\* error is dropped by every caller in dwarf.go)
FromLeToUInt(bs, w) == IF Len(bs) < w THEN 0 ELSE LeSum(bs, 1, w)

\* the little-endian bytes of n, w bytes wide (how the inputs are written)
RECURSIVE LeBytes(_, _)
LeBytes(n, w) == IF w = 0 THEN << >> ELSE <<n % 256>> \o LeBytes(n \div 256, w - 1)

\* a decoder that stops after the first byte
uLEBFirstByte(bytes) == IF bytes = << >> THEN <<0, 1>> ELSE <<bytes[1] % 128, 1>>

RECURSIVE uLEBLoop(_, _, _)
uLEBLoop(bytes, pos, val) ==
    IF pos < Len(bytes)
    THEN LET v == val + (bytes[pos + 1] % 128) * Pow(128, pos)
         IN  IF bytes[pos + 1] < 128 THEN <<v, pos + 1>>
             ELSE uLEBLoop(bytes, pos + 1, v)
    ELSE <<val, pos + 1>>

\* ReaduLEB128: <<value, size>>; on a slice that ends before a terminating
\* byte the size is len + 1
ReaduLEB128(bytes) == uLEBLoop(bytes, 0, 0)

\* a signed decoder that does not extend the sign
sLEBNoSignExtension(bytes) == uLEBLoop(bytes, 0, 0)

RECURSIVE sLEBLoop(_, _, _)
sLEBLoop(bytes, pos, val) ==
    IF pos < Len(bytes)
    THEN LET v == val + (bytes[pos + 1] % 128) * Pow(128, pos)
         IN  IF bytes[pos + 1] < 128
             THEN <<IF (bytes[pos + 1] \div 64) % 2 = 1
                    THEN v - Pow(128, pos + 1) ELSE v, pos + 1>>
             ELSE sLEBLoop(bytes, pos + 1, v)
    ELSE <<val, pos + 1>>

\* ReadsLEB128: <<value, size>>
ReadsLEB128(bytes) == sLEBLoop(bytes, 0, 0)

\* uint8(x) and int8(x) of Go
U8(x) == x % 256
I8(x) == IF x % 256 >= 128 THEN (x % 256) - 256 ELSE x % 256


(***************************************************************************)
(* The function table of the ELF object (src/elf/elf.go).                  *)
(***************************************************************************)
\* an empty map[uint64]LineAddrInfo
EmptyLineAddrs == [l \in {} |-> 0]

\* elf.ElfFunctionInfo
ElfFunctionInfo(name, addr, size) ==
    [Name |-> name, SrcDirName |-> "", SrcFileName |-> "", Addr |-> addr,
     Size |-> size, SecName |-> ".text", LineAddrs |-> EmptyLineAddrs]

\* The symbol table the model is run with: two adjacent functions, f at
\* [1, 3) and g at [3, 5); the addresses 0 and 5.. belong to no function.
FuncTables ==
    { <<ElfFunctionInfo("f", 1, 2), ElfFunctionInfo("g", 3, 2)>> }

\* NewElf64: AddrFuncIdxMap[f.Addr + offset] = funcIdx for offset < f.Size,
\* in the order of the table (a later function overwrites an earlier one)
AddrFuncIdxMap(fs) ==
    LET covers(a) == {i \in 1..Len(fs) : fs[i].Addr <= a /\ a < fs[i].Addr + fs[i].Size}
        keys == {a \in 0..MaxAddr : covers(a) # {}}
    IN  [a \in keys |-> (CHOOSE i \in covers(a) : \A j \in covers(a) : j <= i) - 1]

\* GetFuncIdxByAddr: the index (from 0) of the function, -1 when there is none
GetFuncIdxByAddr(fs, addr) ==
    IF addr \in DOMAIN AddrFuncIdxMap(fs) THEN AddrFuncIdxMap(fs)[addr] ELSE -1

(***************************************************************************)
(* The line-program header (ReadLineInfo).                                 *)
(***************************************************************************)
\* A 4-byte word as <<high 16 bits, low 16 bits>>: 0xFFFFFF00 and the values
\* above it do not fit the integers of the model checker.
U32Less(a, b) == a[1] < b[1] \/ (a[1] = b[1] /\ a[2] < b[2])
U32Val(a) == a[1] * 65536 + a[2]
\* 0xffffff00
ReservedLow == <<65535, 65280>>
\* 0xffffffff
Escape64 == <<65535, 65535>>

\* ReadLineInfo: the format chosen from the first 4 bytes of unit_length
LineInfoFormat(tmp) ==
    IF U32Less(tmp, ReservedLow) THEN DWARF_32BIT_FORMAT ELSE DWARF_64BIT_FORMAT

\* the bytes ReadLineInfo consumes for unit_length: 4, and 8 more in the
\* 64-bit format
LineInfoLengthFieldSize(fmt) == IF fmt = DWARF_32BIT_FORMAT THEN 4 ELSE 4 + 8

\* ReadLineInfo: endOffset := hdrOffset + UnitLength, + 4 or + 8
LineInfoEndOffset(hdrOff, unitLength, fmt) ==
    hdrOff + unitLength + (IF fmt = DWARF_32BIT_FORMAT THEN 4 ELSE 8)

\* ReadLineInfo: hdrOffset += UnitLength, += 4 or += 8
LineInfoNextHdrOffset(hdrOff, unitLength, fmt) ==
    hdrOff + unitLength + (IF fmt = DWARF_32BIT_FORMAT THEN 4 ELSE 8)

RECURSIVE SumDirs(_)
SumDirs(dirs) == IF dirs = << >> THEN 0 ELSE Len(Head(dirs)) + 1 + SumDirs(Tail(dirs))

RECURSIVE SumFiles(_)
SumFiles(files) ==
    IF files = << >> THEN 0
    ELSE Len(Head(files).Name) + 1 + ReaduLEB128(<<Head(files).DirIdx>>)[2] + 1 + 1
         + SumFiles(Tail(files))

\* The offset at which ReadLineInfo stands after the header, i.e. lnpStart.
\* Version <= 4: NUL-terminated include_directories and file_names (name,
\* dir index, mtime, size).  Version 5: one directory format (DW_LNCT_path,
\* DW_FORM_line_strp) and two file formats (DW_LNCT_path, DW_FORM_line_strp;
\* DW_LNCT_directory_index, DW_FORM_udata).
LineInfoHeaderEnd(hdrOff, fmt, version, opcodeBase, dirs, files) ==
    LET strp == IF fmt = DWARF_32BIT_FORMAT THEN 4 ELSE 8
        fixed == LineInfoLengthFieldSize(fmt) + 2
                 + (IF 5 <= version THEN 2 ELSE 0) + 4 + 1
                 + (IF 4 <= version THEN 1 ELSE 0) + 4 + (opcodeBase - 1)
    IN  IF 5 <= version
        THEN hdrOff + fixed + 1 + 2 + 1 + Len(dirs) * strp
                    + 1 + 4 + 1 + Len(files) * (strp + 1)
        ELSE hdrOff + fixed + SumDirs(dirs) + 1 + SumFiles(files) + 1

\* The headers the model is run with.
Versions == {4, 5}
MinInstLengths == {1}
DefaultIsStmts == {1, 2}
LineBases == {-1, 127}
LineRanges == {100, 250, 255}
OpcodeBases == {13, 14}
\* version, default_is_stmt, line_base, line_range and opcode_base of the
\* headers the model is run with
HeaderProfiles ==
    {<<4, 1, -1, 100, 13>>, <<5, 1, -1, 100, 13>>, <<4, 2, 127, 250, 13>>,
     <<4, 1, -1, 255, 14>>}
FileTables ==
    { [dirs |-> <<"d", "e">>,
       files |-> <<[Name |-> "a", DirIdx |-> 0], [Name |-> "b", DirIdx |-> 1]>>] }

\* NewLnsm
NewLnsm(defaultIsStmt) ==
    [Address |-> 0, OpIndex |-> 0, File |-> 1, Line |-> 1, Column |-> 0,
     IsStmt |-> (defaultIsStmt = 1), BasicBlock |-> FALSE,
     PrologueEnd |-> FALSE, EndSequence |-> FALSE, EpilogueBegin |-> FALSE,
     Isa |-> 0, Discriminator |-> 0]


(***************************************************************************)
(* The state.                                                              *)
(***************************************************************************)
VARIABLES
    pc,           \* "header": ReadLineInfo is at the top of its loop;
                  \* "run": readLineNumberProgram is at the top of its loop;
                  \* "return": ReadLineInfo has returned; "panic"
    err,          \* the panic raised, "" when none
    hdrOffset,    \* ReadLineInfo: hdrOffset
    hdr,          \* lineInfoHdr
    lnpStart,     \* readLineNumberProgram: lnpStart
    lnpEnd,       \* readLineNumberProgram: lnpEnd
    length,       \* readLineNumberProgram: length = len(lnpIns)
    offset,       \* readLineNumberProgram: offset
    lnsm,         \* readLineNumberProgram: lnsm
    curFuncAddr,  \* readLineNumberProgram: curFuncAddr
    endOfSeq,     \* readLineNumberProgram: endOfSeq
    funcs,        \* elfObj.FuncsInfos
    peek,         \* the bytes of lnpIns at the cursor that an earlier
                  \* iteration has read without consuming them
    lastOp,       \* history: the opcode of the last iteration
    lastRowAddr,  \* history: the address of the last row of the current
                  \* sequence emitted since the last set_address, or -1
    rowsInSeq,    \* history: the rows so emitted, counted up to 2
    lastOpcode,   \* history: opcode of the last iteration
    lastEx,       \* history: the bytes that the last iteration has examined
    lastRow,      \* history: the registers that the last iteration has
                  \* handed to addFuncAddrLineInfo, NoRow when it made no call
    \* ReadDebugInfo
    infoPc,       \* "cu": at the top of the loop over the units; "die": at
                  \* the top of the loop over the entries of a unit;
                  \* "return"; "panic"; "idle"
    infoErr,      \* the panic raised, "" when none
    dbgInfolen,   \* dbgInfolen
    infoOffset,   \* offset
    cuTop,        \* cuTop
    cuEnd,        \* cuEnd
    cuh,          \* cuh
    cuFuncs,      \* cuDbgInfo.Funcs
    cppTmpFunc,   \* cppTmpFunc
    dbgInfos,     \* dbgInfos: the Funcs of the units read
    infoPeek,     \* the bytes of the unit header at the cursor
    infoLast,     \* history: the last step, "cuh", "null", "die", "done"
    lastDie,      \* history: the last entry read
    \* the test of unit_length
    fmtSite,      \* the function that has read a unit_length
    fmtWord,      \* its first 4 bytes
    fmtNext8,     \* the value of the 8 bytes after them
    fmtResult,    \* what the function has made of them
    \* ReaduLEB128 and ReadsLEB128 called on their own
    lebFn,        \* the function called, "u" or "s"; "none"; "idle"
    lebBytes,     \* bytes
    lebVal,       \* the value returned
    lebSize,      \* the size returned
    lebErr,       \* the failure of the call, "" when it has returned
    \* ReadLineInfo, version 5: the directories of the header
    dirPc,        \* "formats": before directory_entry_format_count; "dirs":
                  \* at the top of the loop over the directories; "done";
                  \* "panic"; "idle"
    dirErr,       \* the panic raised, "" when none
    dirDwarfFormat,   \* lineInfoHdr.DwarfFormat
    dirFormats,   \* lineInfoHdr.DirectoryEntryFormats
    dirCount,     \* lineInfoHdr.DirectoriesCount
    dirStart,     \* offset of the first directory
    dirOffset,    \* offset
    includeDirs,  \* lineInfoHdr.IncludeDirs
    dirsWritten   \* history: the bytes of the directories passed, as the
                  \* header holds them

\* ReadAbbrevTbl
VARIABLES
    abPc,         \* "loop", "return", "panic"; "idle" when it is not run
    abBytes,      \* bytes
    abPos,        \* pos
    abbrevTbl,    \* abbrevTbl
    abDecls       \* history: the declarations that bytes was written from

\* ReadAranges
VARIABLES
    arPc,         \* "table", "pairs", "return", "panic"; "idle" when it is not run
    arBin,        \* bin
    arOffset,     \* offset
    arTop,        \* headerTop
    arNext,       \* nextHdrTop
    arHdr,        \* arangeInfoHdr
    arSegments,   \* arangeInfo.Segments
    arangeInfos,  \* arangeInfos
    arFirst,      \* history: the offset at which the first pair of the
                  \* sub-table was read
    arTables,     \* history: the sub-tables that bin was written from
    arRead        \* history: the sub-tables stored, in the order of the stores

lineVars == <<pc, err, hdrOffset, hdr, lnpStart, lnpEnd, length, offset, lnsm,
              curFuncAddr, endOfSeq, funcs, peek, lastOp, lastRowAddr,
              rowsInSeq, lastOpcode, lastEx, lastRow>>

infoVars == <<infoPc, infoErr, dbgInfolen, infoOffset, cuTop, cuEnd, cuh, cuFuncs,
              cppTmpFunc, dbgInfos, infoPeek, infoLast, lastDie>>

fmtVars == <<fmtSite, fmtWord, fmtNext8, fmtResult>>

lebVars == <<lebFn, lebBytes, lebVal, lebSize, lebErr>>

abbrVars == <<abPc, abBytes, abPos, abbrevTbl, abDecls>>

arVars == <<arPc, arBin, arOffset, arTop, arNext, arHdr, arSegments, arangeInfos,
            arFirst, arTables, arRead>>

dirVars == <<dirPc, dirErr, dirDwarfFormat, dirFormats, dirCount, dirStart,
             dirOffset, includeDirs, dirsWritten>>

vars == <<lineVars, infoVars, fmtVars, lebVars, dirVars, abbrVars, arVars>>

NoHdr ==
    [UnitLength |-> 0, DwarfFormat |-> 0, Version |-> 0, MinInstLength |-> 0,
     DefaultIsStmt |-> 0, LineBase |-> 0, LineRange |-> 0, OpcodeBase |-> 0,
     IncludeDirs |-> << >>, Files |-> << >>]

\* no call of addFuncAddrLineInfo
NoRow == [emitted |-> FALSE, Address |-> 0, Line |-> 0, EndSequence |-> FALSE]

LineRest ==
    /\ err = ""
    /\ hdrOffset = 0
    /\ hdr = NoHdr
    /\ lnpStart = 0
    /\ lnpEnd = 0
    /\ length = 0
    /\ offset = 0
    /\ lnsm = NewLnsm(0)
    /\ curFuncAddr = 0
    /\ endOfSeq = FALSE
    /\ funcs \in FuncTables
    /\ peek = << >>
    /\ lastOp = "none"
    /\ lastRowAddr = -1
    /\ rowsInSeq = 0
    /\ lastOpcode = 0
    /\ lastEx = << >>
    /\ lastRow = NoRow

LineInit == pc = "header" /\ LineRest

LineIdle == pc = "idle" /\ LineRest

(***************************************************************************)
(* addFuncAddrLineInfo.                                                    *)
(***************************************************************************)
\* the index (from 0, as in Go) of the file-table entry taken for a row
RowFileIndex(h, sm) == sm.File - 1

\* a store that also moves the function to the address of the row
StoreLineAddrAndAddr(fs, funcIdx, dirName, fileName, lineAddr) ==
    [fs EXCEPT ![funcIdx + 1] =
        [@ EXCEPT !.SrcDirName = dirName,
                  !.SrcFileName = fileName,
                  !.Addr = lineAddr.Addr,
                  !.LineAddrs = [l \in DOMAIN @ \cup {lineAddr.Line} |->
                                   IF l = lineAddr.Line THEN lineAddr ELSE @[l]]]]

\* funcs with LineAddrs[line] = lineAddr, SrcDirName and SrcFileName written
\* to the function at index funcIdx (from 0)
StoreLineAddr(fs, funcIdx, dirName, fileName, lineAddr) ==
    [fs EXCEPT ![funcIdx + 1] =
        [@ EXCEPT !.SrcDirName = dirName,
                  !.SrcFileName = fileName,
                  !.LineAddrs = [l \in DOMAIN @ \cup {lineAddr.Line} |->
                                   IF l = lineAddr.Line THEN lineAddr ELSE @[l]]]]

\* addFuncAddrLineInfo: [err, funcs]
AddFuncAddrLineInfo(h, sm, funcAddr, fs) ==
    LET fi == RowFileIndex(h, sm)
        funcIdx == GetFuncIdxByAddr(fs, funcAddr)
    IN  IF fi < 0 \/ fi >= Len(h.Files)
        THEN [err |-> "IndexOutOfRange", funcs |-> fs]
        ELSE IF funcIdx < 0
        THEN [err |-> "", funcs |-> fs]
        ELSE LET file == h.Files[fi + 1]
                 lineAddr == [Line |-> sm.Line, Addr |-> sm.Address,
                              IsStmt |-> sm.IsStmt, SrcDirName |-> "",
                              SrcFileName |-> ""]
             IN  IF 5 <= h.Version
                 THEN IF file.DirIdx >= Len(h.IncludeDirs)
                      THEN [err |-> "IndexOutOfRange", funcs |-> fs]
                      ELSE LET d == h.IncludeDirs[file.DirIdx + 1]
                           IN  [err |-> "",
                                funcs |-> StoreLineAddr(fs, funcIdx, d, file.Name,
                                            [lineAddr EXCEPT !.SrcDirName = d])]
                 ELSE IF file.DirIdx < 1
                      THEN [err |-> "",
                            funcs |-> StoreLineAddr(fs, funcIdx, "", file.Name, lineAddr)]
                      ELSE IF file.DirIdx - 1 >= Len(h.IncludeDirs)
                      THEN [err |-> "IndexOutOfRange", funcs |-> fs]
                      ELSE LET d == h.IncludeDirs[file.DirIdx]
                           IN  [err |-> "",
                                funcs |-> StoreLineAddr(fs, funcIdx, d, file.Name,
                                            [lineAddr EXCEPT !.SrcDirName = d])]


(***************************************************************************)
(* ReadLineInfo: one unit of .debug_line.                                  *)
(***************************************************************************)
\* the first 4 bytes of unit_length the model is run with
LineUnitWords == {<<0, n>> : n \in 0..MaxSecLen} \cup {Escape64}

\* The header of the unit at hdrOffset is read and readLineNumberProgram is
\* entered.  The section holds a unit at hdrOffset (hdrOffset < lineInfoLen).
ReadHeader ==
    /\ pc = "header"
    /\ \E tmp \in LineUnitWords, ul64 \in 0..MaxSecLen, version \in Versions,
          mil \in MinInstLengths, dis \in DefaultIsStmts, lb \in LineBases,
          lr \in LineRanges, ob \in OpcodeBases, tbl \in FileTables :
         LET fmt == LineInfoFormat(tmp)
             ul == IF fmt = DWARF_32BIT_FORMAT THEN U32Val(tmp) ELSE ul64
             h == [UnitLength |-> ul, DwarfFormat |-> fmt, Version |-> version,
                   MinInstLength |-> mil, DefaultIsStmt |-> dis, LineBase |-> lb,
                   LineRange |-> lr, OpcodeBase |-> ob,
                   IncludeDirs |-> tbl.dirs, Files |-> tbl.files]
             off == LineInfoHeaderEnd(hdrOffset, fmt, version, ob, tbl.dirs, tbl.files)
             endOffset == LineInfoEndOffset(hdrOffset, ul, fmt)
         IN  /\ <<version, dis, lb, lr, ob>> \in HeaderProfiles
             /\ endOffset <= MaxSecLen
             /\ (endOffset - off <= MaxLen \/ endOffset - off = WideLen)
             /\ hdr' = h
             /\ IF Len(h.Files) = 0 \/ endOffset < off
                THEN \* Files[0], or secBin[lnpStart:lnpEnd] with lnpStart > lnpEnd
                     /\ pc' = "panic"
                     /\ err' = IF Len(h.Files) = 0 THEN "IndexOutOfRange" ELSE "SliceBounds"
                     /\ UNCHANGED <<hdrOffset, lnpStart, lnpEnd, length, offset, lnsm,
                                    curFuncAddr, endOfSeq, lastOp, lastRowAddr,
                                    rowsInSeq, lastOpcode, lastEx, lastRow>>
                ELSE IF endOffset = off
                THEN \* no program: the next unit
                     /\ pc' = "header"
                     /\ hdrOffset' = LineInfoNextHdrOffset(hdrOffset, ul, fmt)
                     /\ UNCHANGED <<err, lnpStart, lnpEnd, length, offset, lnsm,
                                    curFuncAddr, endOfSeq, lastOp, lastRowAddr,
                                    rowsInSeq, lastOpcode, lastEx, lastRow>>
                ELSE /\ pc' = "run"
                     /\ lnpStart' = off
                     /\ lnpEnd' = endOffset
                     /\ length' = endOffset - off
                     /\ offset' = 0
                     /\ curFuncAddr' = 0
                     /\ lnsm' = NewLnsm(h.DefaultIsStmt)
                     /\ endOfSeq' = FALSE
                     /\ lastOp' = "none"
                     /\ lastRowAddr' = -1
                     /\ rowsInSeq' = 0
                     /\ lastOpcode' = 0
                     /\ lastEx' = << >>
                     /\ lastRow' = NoRow
                     /\ UNCHANGED <<err, hdrOffset>>
    /\ peek' = << >>
    /\ UNCHANGED <<funcs, infoVars, fmtVars, lebVars, dirVars, abbrVars, arVars>>

\* The section ends at or before hdrOffset: ReadLineInfo returns.
Return ==
    /\ pc = "header"
    /\ pc' = "return"
    /\ UNCHANGED <<err, hdrOffset, hdr, lnpStart, lnpEnd, length, offset, lnsm,
                   curFuncAddr, endOfSeq, funcs, peek, lastOp, lastRowAddr,
                   rowsInSeq, lastOpcode, lastEx, lastRow, infoVars, fmtVars, lebVars,
                   dirVars, abbrVars, arVars>>

\* endOfSeq kept from the iteration before
EndOfSeqKept == endOfSeq

\* readLineNumberProgram: endOfSeq at the top of an iteration
EndOfSeqAtLoopTop == FALSE

\* The opcode loop has ended: the end_sequence check, and back in ReadLineInfo
\* the step to the next unit.
LoopExit ==
    /\ pc = "run"
    /\ ~(offset < length)
    /\ IF ~endOfSeq
       THEN /\ pc' = "panic"
            /\ err' = "MissingEndSequence"
            /\ UNCHANGED hdrOffset
       ELSE /\ pc' = "header"
            /\ hdrOffset' = LineInfoNextHdrOffset(hdrOffset, hdr.UnitLength, hdr.DwarfFormat)
            /\ UNCHANGED err
    \* the locals of readLineNumberProgram are gone
    /\ lnpStart' = 0
    /\ lnpEnd' = 0
    /\ length' = 0
    /\ offset' = 0
    /\ lnsm' = NewLnsm(0)
    /\ curFuncAddr' = 0
    /\ endOfSeq' = FALSE
    /\ peek' = << >>
    /\ lastRowAddr' = -1
    /\ rowsInSeq' = 0
    /\ lastOpcode' = 0
    /\ lastEx' = << >>
    /\ lastRow' = NoRow
    /\ UNCHANGED <<hdr, funcs, lastOp, infoVars, fmtVars, lebVars, dirVars, abbrVars, arVars>>

(***************************************************************************)
(* readLineNumberProgram: one iteration of the opcode loop.                *)
(***************************************************************************)
\* the bytes of lnpIns from the cursor to the end of the slice
Remaining == length - offset

\* ob is a LEB128 operand as it lies in a slice of avail bytes: it ends with
\* its terminating byte, or the slice ends first
LebAt(ob, avail) ==
    /\ Len(ob) <= avail
    /\ \A i \in 1..(Len(ob) - 1) : ob[i] >= 128
    /\ \/ Len(ob) > 0 /\ ob[Len(ob)] < 128
       \/ Len(ob) = avail /\ (Len(ob) > 0 => ob[Len(ob)] >= 128)

\* ob is what a read of w bytes sees in a slice of avail bytes
FixedAt(ob, w, avail) == Len(ob) = (IF avail < w THEN (IF avail < 0 THEN 0 ELSE avail) ELSE w)

\* One iteration: it examines the bytes ex at the cursor (the opcode first),
\* moves the cursor by n, and leaves the registers sm, curFuncAddr cfa,
\* endOfSeq eos, the function table fs; e is the panic it raises, "" if none.
\* The address and line registers are 64 bits wide: the runs explored are
\* those that keep them within 0..MaxAddr and 0..MaxLine, where no
\* arithmetic wraps around.  A program of more than MaxLen bytes is run
\* with the opcodes of more than MaxLen bytes only.
Iter(op, ex, n, sm, cfa, eos, fs, lra, e) ==
    /\ pc = "run"
    /\ offset < length
    /\ Len(ex) <= Remaining
    /\ (length > MaxLen => Len(ex) > MaxLen)
    /\ Agree(peek, ex)
    /\ sm.Address \in 0..MaxAddr
    /\ sm.Line \in 0..MaxLine
    /\ offset' = offset + n
    /\ peek' = Drop(IF Len(peek) > Len(ex) THEN peek ELSE ex, n)
    /\ lnsm' = sm
    /\ curFuncAddr' = cfa
    /\ endOfSeq' = eos
    /\ funcs' = fs
    /\ lastOp' = op
    /\ lastOpcode' = ex[1]
    /\ lastEx' = ex
    /\ lastRow' = IF op \in {"copy", "special"} /\ sm.IsStmt
                  THEN [emitted |-> TRUE, Address |-> sm.Address, Line |-> sm.Line,
                        EndSequence |-> sm.EndSequence]
                  ELSE NoRow
    /\ lastRowAddr' = lra
    /\ rowsInSeq' = IF lra = -1 THEN 0
                    ELSE IF op \in {"copy", "special"}
                    THEN (IF rowsInSeq < 2 THEN rowsInSeq + 1 ELSE 2)
                    ELSE rowsInSeq
    /\ pc' = IF e = "" THEN "run" ELSE "panic"
    /\ err' = e
    /\ UNCHANGED <<hdrOffset, hdr, lnpStart, lnpEnd, length, infoVars, fmtVars, lebVars, dirVars, abbrVars, arVars>>


\* The operands the model is run with.  A LEB128 operand whose last byte has
\* its high bit set is one that the end of the slice cuts short.
EndSequenceLens == {<<1>>}
SetAddressLens == {<<5>>, <<9>>}
SkipLens == {<<2>>}
\* the uLEB128 of 2^64 - 11
WideSkipLens == {<<245, 255, 255, 255, 255, 255, 255, 255, 255, 1>>}
TruncatedLens == {<<1>>, <<129>>}
SetAddresses == {1, 4}
DiscriminatorOperands == {<<1>>}
AdvancePcOperands == {<<1>>, <<2>>, <<129>>}
AdvanceLineOperands == {<<1>>, <<127>>}
SetFileOperands == {<<0>>, <<2>>}
SetColumnOperands == {<<1>>}
SetIsaOperands == {<<1>>}
FixedAdvancePcOperands == {<<1, 0>>, <<2>>}
SpecialOpcodes == {13, 15, 114, 142}
UnknownExtOpcodes == {5, 129}

\* the bytes 0x00, length of an extended opcode, when the slice ends before
\* the sub-opcode: lnpIns[offset] is out of range
ExtTruncated ==
    \E lb \in TruncatedLens :
      LET size == ReaduLEB128(lb)[2]
      IN  /\ LebAt(lb, Remaining - 1)
          /\ offset + 1 + size >= length
          /\ Iter("ext_truncated", <<0>> \o lb, 1 + size, lnsm, curFuncAddr,
                  EndOfSeqAtLoopTop, funcs, lastRowAddr, "IndexOutOfRange")

\* case DW_LNE_end_sequence
ExtEndSequence ==
    \E lb \in EndSequenceLens :
      LET size == ReaduLEB128(lb)[2]
      IN  /\ LebAt(lb, Remaining - 1)
          /\ offset + 1 + size < length
          /\ Iter("end_sequence", <<0>> \o lb \o <<DW_LNE_end_sequence>>,
                  1 + size + 1, NewLnsm(hdr.DefaultIsStmt), curFuncAddr, TRUE,
                  funcs, -1, "")

\* case DW_LNE_set_address
ExtSetAddress ==
    \E lb \in SetAddressLens, a \in SetAddresses :
      LET len == ReaduLEB128(lb)[1]
          size == ReaduLEB128(lb)[2]
          addrSize == len - 1
          w == IF addrSize = 8 THEN 8 ELSE 4
          avail == Remaining - (1 + size + 1)
          ob == SubSeq(LeBytes(a, w), 1, IF avail < w THEN avail ELSE w)
          address == FromLeToUInt(ob, w)
      IN  /\ LebAt(lb, Remaining - 1)
          /\ offset + 1 + size < length
          /\ Iter("set_address", <<0>> \o lb \o <<DW_LNE_set_address>> \o ob,
                  1 + size + 1 + (len - 1), [lnsm EXCEPT !.Address = address],
                  address, EndOfSeqAtLoopTop, funcs, -1, "")

\* ReaduLEB128 with val, a uint64, given by the one of -2^63..2^63-1 that
\* is equal to it modulo 2^64.  Of ten bytes the last gives bit 63 and the
\* eight before it are 0xFF in the model: val is 2^64 - 1 - c, where c is
\* the complement of the low 7 bits of the first byte.
ReaduLEB128U64(bytes) ==
    IF Len(bytes) < 10 THEN ReaduLEB128(bytes)
    ELSE <<0 - (1 + (127 - (bytes[1] % 128))), 10>>

\* case DW_LNE_define_file, DW_LNE_lo_user, DW_LNE_hi_user: offset += length - 1,
\* in uint64
ExtSkip(op, sub) ==
    \E lb \in SkipLens \cup WideSkipLens :
      LET len == ReaduLEB128U64(lb)[1]
          size == ReaduLEB128U64(lb)[2]
      IN  /\ LebAt(lb, Remaining - 1)
          /\ offset + 1 + size < length
          /\ Iter(op, <<0>> \o lb \o <<sub>>, 1 + size + 1 + (len - 1), lnsm,
                  curFuncAddr, EndOfSeqAtLoopTop, funcs, lastRowAddr, "")

ExtDefineFile == ExtSkip("define_file", DW_LNE_define_file)
ExtLoUser == ExtSkip("lo_user", DW_LNE_lo_user)
ExtHiUser == ExtSkip("hi_user", DW_LNE_hi_user)

\* case DW_LNE_set_discriminator
ExtSetDiscriminator ==
    \E lb \in SkipLens, ob \in DiscriminatorOperands :
      LET size == ReaduLEB128(lb)[2]
          d == ReaduLEB128(ob)
      IN  /\ LebAt(lb, Remaining - 1)
          /\ offset + 1 + size < length
          /\ LebAt(ob, Remaining - (1 + size + 1))
          /\ Iter("set_discriminator",
                  <<0>> \o lb \o <<DW_LNE_set_discriminator>> \o ob,
                  1 + size + 1 + d[2], [lnsm EXCEPT !.Discriminator = d[1]],
                  curFuncAddr, EndOfSeqAtLoopTop, funcs, lastRowAddr, "")

\* default: of the extended opcodes
ExtUnknown ==
    \E lb \in EndSequenceLens, sub \in UnknownExtOpcodes :
      LET size == ReaduLEB128(lb)[2]
      IN  /\ LebAt(lb, Remaining - 1)
          /\ offset + 1 + size < length
          /\ Iter("ext_unknown", <<0>> \o lb \o <<sub>>, 1 + size + 1, lnsm,
                  curFuncAddr, EndOfSeqAtLoopTop, funcs, lastRowAddr,
                  "UnexpectedExtendedOpcode")

\* lnsm with basic_block, prologue_end, epilogue_begin cleared
ClearFlags(sm) ==
    [sm EXCEPT !.BasicBlock = FALSE, !.PrologueEnd = FALSE, !.EpilogueBegin = FALSE]

\* a row is handed on whatever is_stmt holds
RowRecordedAlways(sm) == TRUE

\* if lnsm.IsStmt { addFuncAddrLineInfo(...) }: the row of copy and of the
\* special opcodes is handed to addFuncAddrLineInfo when is_stmt is set
RowRecorded(sm) == sm.IsStmt

\* case DW_LNS_copy
Copy ==
    LET r == IF RowRecorded(lnsm)
             THEN AddFuncAddrLineInfo(hdr, lnsm, curFuncAddr, funcs)
             ELSE [err |-> "", funcs |-> funcs]
    IN  Iter("copy", <<DW_LNS_copy>>, 1,
             IF r.err = "" THEN ClearFlags(lnsm) ELSE lnsm, curFuncAddr,
             EndOfSeqAtLoopTop, r.funcs, lnsm.Address, r.err)

\* case DW_LNS_advance_pc
AdvancePc ==
    \E ob \in AdvancePcOperands :
      LET r == ReaduLEB128(ob)
      IN  /\ LebAt(ob, Remaining - 1)
          /\ Iter("advance_pc", <<DW_LNS_advance_pc>> \o ob, 1 + r[2],
                  [lnsm EXCEPT !.Address = @ + r[1] * hdr.MinInstLength],
                  curFuncAddr, EndOfSeqAtLoopTop, funcs, lastRowAddr, "")

\* case DW_LNS_advance_line
AdvanceLine ==
    \E ob \in AdvanceLineOperands :
      LET r == ReadsLEB128(ob)
      IN  /\ LebAt(ob, Remaining - 1)
          /\ Iter("advance_line", <<DW_LNS_advance_line>> \o ob, 1 + r[2],
                  [lnsm EXCEPT !.Line = @ + r[1]],
                  curFuncAddr, EndOfSeqAtLoopTop, funcs, lastRowAddr, "")

\* case DW_LNS_set_file
SetFile ==
    \E ob \in SetFileOperands :
      LET r == ReaduLEB128(ob)
      IN  /\ LebAt(ob, Remaining - 1)
          /\ Iter("set_file", <<DW_LNS_set_file>> \o ob, 1 + r[2],
                  [lnsm EXCEPT !.File = r[1]],
                  curFuncAddr, EndOfSeqAtLoopTop, funcs, lastRowAddr, "")

\* case DW_LNS_set_column
SetColumn ==
    \E ob \in SetColumnOperands :
      LET r == ReaduLEB128(ob)
      IN  /\ LebAt(ob, Remaining - 1)
          /\ Iter("set_column", <<DW_LNS_set_column>> \o ob, 1 + r[2],
                  [lnsm EXCEPT !.Column = r[1]],
                  curFuncAddr, EndOfSeqAtLoopTop, funcs, lastRowAddr, "")

\* case DW_LNS_negate_stmt
NegateStmt ==
    Iter("negate_stmt", <<DW_LNS_negate_stmt>>, 1,
         [lnsm EXCEPT !.IsStmt = ~@],
         curFuncAddr, EndOfSeqAtLoopTop, funcs, lastRowAddr, "")

\* case DW_LNS_set_basic_block
SetBasicBlock ==
    Iter("set_basic_block", <<DW_LNS_set_basic_block>>, 1,
         [lnsm EXCEPT !.BasicBlock = TRUE],
         curFuncAddr, EndOfSeqAtLoopTop, funcs, lastRowAddr, "")

\* adjOpcode := opcode - lineInfoHdr.OpcodeBase, in uint8
AdjOpcode(h, opcode) == U8(opcode - h.OpcodeBase)

\* addrInc of const_add_pc taken off the address
ConstAddPcDec(h) ==
    0 - U8((AdjOpcode(h, DW_LNS_const_add_pc) \div h.LineRange) * h.MinInstLength)

\* case DW_LNS_const_add_pc: addrInc, in uint8
ConstAddPcInc(h) ==
    U8((AdjOpcode(h, DW_LNS_const_add_pc) \div h.LineRange) * h.MinInstLength)

\* case DW_LNS_const_add_pc
ConstAddPc ==
    /\ hdr.LineRange # 0
    /\ Iter("const_add_pc", <<DW_LNS_const_add_pc>>, 1,
            [lnsm EXCEPT !.Address = @ + ConstAddPcInc(hdr)],
            curFuncAddr, EndOfSeqAtLoopTop, funcs, lastRowAddr, "")

\* case DW_LNS_fixed_advance_pc
FixedAdvancePc ==
    \E ob \in FixedAdvancePcOperands :
      /\ FixedAt(ob, 2, Remaining - 1)
      /\ Iter("fixed_advance_pc", <<DW_LNS_fixed_advance_pc>> \o ob, 1 + 2,
              [lnsm EXCEPT !.Address = @ + FromLeToUInt(ob, 2), !.OpIndex = 0],
              curFuncAddr, EndOfSeqAtLoopTop, funcs, lastRowAddr, "")

\* case DW_LNS_set_prologue_end
SetPrologueEnd ==
    Iter("set_prologue_end", <<DW_LNS_set_prologue_end>>, 1,
         [lnsm EXCEPT !.PrologueEnd = TRUE],
         curFuncAddr, EndOfSeqAtLoopTop, funcs, lastRowAddr, "")

\* case DW_LNS_set_epilogue_begin
SetEpilogueBegin ==
    Iter("set_epilogue_begin", <<DW_LNS_set_epilogue_begin>>, 1,
         [lnsm EXCEPT !.EpilogueBegin = TRUE],
         curFuncAddr, EndOfSeqAtLoopTop, funcs, lastRowAddr, "")

\* case DW_LNS_set_isa: the operand is read and dropped
SetIsa ==
    \E ob \in SetIsaOperands :
      LET r == ReadsLEB128(ob)
      IN  /\ LebAt(ob, Remaining - 1)
          /\ Iter("set_isa", <<DW_LNS_set_isa>> \o ob, 1 + r[2], lnsm,
                  curFuncAddr, EndOfSeqAtLoopTop, funcs, lastRowAddr, "")

\* default: addrInc of a special opcode, in uint8
SpecialAddrInc(h, opcode) ==
    U8((AdjOpcode(h, opcode) \div h.LineRange) * h.MinInstLength)

\* default: lineInc of a special opcode, in int8
SpecialLineInc(h, opcode) ==
    I8(h.LineBase + I8(AdjOpcode(h, opcode) % h.LineRange))

\* default: a special opcode
Special ==
    \E opcode \in SpecialOpcodes :
      LET sm == ClearFlags([lnsm EXCEPT
                      !.Line = @ + SpecialLineInc(hdr, opcode),
                      !.Address = @ + SpecialAddrInc(hdr, opcode)])
          r == IF RowRecorded(sm)
               THEN AddFuncAddrLineInfo(hdr, sm, sm.Address, funcs)
               ELSE [err |-> "", funcs |-> funcs]
      IN  /\ hdr.LineRange # 0
          /\ Iter("special", <<opcode>>, 1, sm, sm.Address, EndOfSeqAtLoopTop,
                  r.funcs, sm.Address, r.err)

LineNext ==
    \/ ReadHeader
    \/ Return
    \/ LoopExit
    \/ ExtTruncated
    \/ ExtEndSequence
    \/ ExtSetAddress
    \/ ExtDefineFile
    \/ ExtSetDiscriminator
    \/ ExtLoUser
    \/ ExtHiUser
    \/ ExtUnknown
    \/ Copy
    \/ AdvancePc
    \/ AdvanceLine
    \/ SetFile
    \/ SetColumn
    \/ NegateStmt
    \/ SetBasicBlock
    \/ ConstAddPc
    \/ FixedAdvancePc
    \/ SetPrologueEnd
    \/ SetEpilogueBegin
    \/ SetIsa
    \/ Special

(***************************************************************************)
(* NewDwarf32Cuh: the header of a unit of .debug_info.                     *)
(***************************************************************************)
\* the 4 bytes bs[1..4] as a word <<high 16 bits, low 16 bits>>
Word32(bs) == <<bs[4] * 256 + bs[3], bs[2] * 256 + bs[1]>>

\* the bytes of a word
WordBytes(w) == <<w[2] % 256, w[2] \div 256, w[1] % 256, w[1] \div 256>>

\* NewDwarf32Cuh: the format chosen from the first 4 bytes of unit_length
CuhFormat(tmp) ==
    IF U32Less(tmp, ReservedLow) THEN DWARF_32BIT_FORMAT ELSE DWARF_64BIT_FORMAT

\* ReadAranges: the format chosen from the first 4 bytes of unit_length
ArangesFormat(tmp) ==
    IF U32Less(tmp, ReservedLow) THEN DWARF_32BIT_FORMAT ELSE DWARF_64BIT_FORMAT

\* NewDwarf32Cuh, of the bytes bs of a whole header; size is the value of
\* its local offset at the return
NewDwarf32Cuh(bs) ==
    LET tmp == Word32(bs)
        fmt == CuhFormat(tmp)
        o1 == IF fmt = DWARF_32BIT_FORMAT THEN 4 ELSE 4 + 8
        ul == IF fmt = DWARF_32BIT_FORMAT THEN U32Val(tmp)
              ELSE FromLeToUInt(Drop(bs, 4), 8)
        version == FromLeToUInt(Drop(bs, o1), 2)
        o2 == o1 + 2
        unitType == IF version < 5 THEN 0 ELSE bs[o2 + 1]
        addressSize == IF version < 5 THEN bs[o2 + 4 + 1] ELSE bs[o2 + 1 + 1]
        abbrevOffset == IF version < 5 THEN FromLeToUInt(Drop(bs, o2), 4)
                        ELSE FromLeToUInt(Drop(bs, o2 + 2), 4)
        o3 == IF version < 5 THEN o2 + 4 + 1 ELSE o2 + 1 + 1 + 4
        o4 == IF version < 5 THEN o3
              ELSE IF unitType \in {DW_UT_skeleton, DW_UT_split_compile} THEN o3 + 8
              ELSE IF unitType \in {DW_UT_type, DW_UT_split_type}
              THEN o3 + 8 + (IF fmt = DWARF_32BIT_FORMAT THEN 8 ELSE 0)
              ELSE o3
    IN  [UnitLength |-> ul, DwarfFormat |-> fmt, Version |-> version,
         UnitType |-> unitType, AddressSize |-> addressSize,
         DebugAbbrevOffset |-> abbrevOffset, size |-> o4,
         err |-> IF version < 5 \/ unitType \in DW_UT_compile..DW_UT_split_type
                 THEN "" ELSE "NotImplemented"]

\* n bytes 0
Zeros(n) == [i \in 1..n |-> 0]

\* The bytes of a header as NewDwarf32Cuh reads them: unit_length, version,
\* then debug_abbrev_offset (4 bytes) and address_size, or under version 5
\* unit_type, address_size, debug_abbrev_offset (4 bytes) and the unit id or
\* the type signature and offset, all 0.
CuhBytes(fmt, ul, version, unitType, addressSize) ==
    (IF fmt = DWARF_32BIT_FORMAT THEN LeBytes(ul, 4)
     ELSE WordBytes(Escape64) \o LeBytes(ul, 8))
    \o LeBytes(version, 2)
    \o (IF version < 5 THEN Zeros(4) \o <<addressSize>>
        ELSE <<unitType, addressSize>> \o Zeros(4)
             \o (IF unitType \in {DW_UT_skeleton, DW_UT_split_compile} THEN Zeros(8)
                 ELSE IF unitType \in {DW_UT_type, DW_UT_split_type}
                 THEN Zeros(IF fmt = DWARF_32BIT_FORMAT THEN 16 ELSE 8)
                 ELSE << >>))

\* The unit headers the model is run with.
CuVersions == {2, 4, 5}
CuUnitTypes == {DW_UT_compile, DW_UT_type, DW_UT_skeleton, 7}
AddressSizes == {4, 8}
CuHeaders ==
    {CuhBytes(f, ul, v, t, a) :
        f \in {DWARF_32BIT_FORMAT, DWARF_64BIT_FORMAT}, ul \in 0..MaxInfoLen,
        v \in CuVersions, t \in CuUnitTypes, a \in AddressSizes}

(***************************************************************************)
(* ReadDebugInfo.                                                          *)
(***************************************************************************)
\* A string is the sequence of its bytes.
\* Dwarf32FuncInfo{}
NoFuncInfo ==
    [SrcFilePath |-> << >>, Name |-> << >>, LinkageName |-> << >>, Addr |-> 0,
     Size |-> 0]

\* Abbrev{}, which a map gives for a code it does not hold
NoAbbrev == [Id |-> 0, Tag |-> 0, Attrs |-> << >>]

Abbrev(id, tag, attrs) == [Id |-> id, Tag |-> tag, Attrs |-> attrs]
AbbrevAttr(attr, form) == [Attr |-> attr, Form |-> form, Const |-> 0]

\* The abbreviation table the model is run with (ReadAbbrevTbl): a compile
\* unit, the declaration of a function, its definition with
\* DW_AT_specification before and after DW_AT_low_pc, a function with a
\* name and an address, an entry with a form (0x2d) that the switch on
\* attr.Form has no case for, an entry with an expression.
AbbrevTbl ==
    << Abbrev(1, DW_TAG_compile_unit, <<AbbrevAttr(DW_AT_low_pc, DW_FORM_addr)>>),
       Abbrev(2, DW_TAG_subprogram, <<AbbrevAttr(DW_AT_name, DW_FORM_string)>>),
       Abbrev(3, DW_TAG_subprogram, <<AbbrevAttr(DW_AT_specification, DW_FORM_ref4),
                                      AbbrevAttr(DW_AT_low_pc, DW_FORM_addr)>>),
       Abbrev(4, DW_TAG_subprogram, <<AbbrevAttr(DW_AT_low_pc, DW_FORM_addr),
                                      AbbrevAttr(DW_AT_specification, DW_FORM_ref4)>>),
       Abbrev(5, DW_TAG_subprogram, <<AbbrevAttr(DW_AT_name, DW_FORM_string),
                                      AbbrevAttr(DW_AT_low_pc, DW_FORM_addr),
                                      AbbrevAttr(DW_AT_high_pc, DW_FORM_data4)>>),
       Abbrev(6, DW_TAG_subprogram, <<AbbrevAttr(DW_AT_name, 45)>>),
       Abbrev(7, DW_TAG_variable, <<AbbrevAttr(DW_AT_location, DW_FORM_exprloc)>>),
       Abbrev(8, DW_TAG_subprogram, <<AbbrevAttr(DW_AT_name, DW_FORM_string),
                                      AbbrevAttr(DW_AT_low_pc, DW_FORM_addr)>>),
       Abbrev(10, DW_TAG_subprogram, <<AbbrevAttr(DW_AT_low_pc, DW_FORM_addr)>>),
       Abbrev(11, DW_TAG_subprogram, <<AbbrevAttr(DW_AT_comp_dir, DW_FORM_string)>>),
       Abbrev(12, DW_TAG_variable,
              <<AbbrevAttr(DW_AT_data_member_location, DW_FORM_block)>>) >>

\* abbrevMap[id]
AbbrevMap(id) ==
    IF \E i \in 1..Len(AbbrevTbl) : AbbrevTbl[i].Id = id
    THEN AbbrevTbl[CHOOSE i \in 1..Len(AbbrevTbl) :
                     AbbrevTbl[i].Id = id /\ \A j \in (i + 1)..Len(AbbrevTbl) : AbbrevTbl[j].Id # id]
    ELSE NoAbbrev

\* m[k] = v of a Go map
Put(m, k, v) == [x \in DOMAIN m \cup {k} |-> IF x = k THEN v ELSE m[x]]

\* an empty map
EmptyMap == [x \in {} |-> 0]

\* string(b) of Go for a byte b: the UTF-8 encoding of the code point b
Utf8OfByte(b) == IF b < 128 THEN <<b>> ELSE <<192 + (b \div 64), 128 + (b % 64)>>

\* binutil.GetString(bs, 0): str += string(bin[offset]) for the bytes before
\* the first 0
RECURSIVE GetString(_)
GetString(bs) ==
    IF bs = << >> \/ Head(bs) = 0 THEN << >>
    ELSE Utf8OfByte(Head(bs)) \o GetString(Tail(bs))

\* The loop over the operations of a DW_FORM_exprloc, bs the bytes at the
\* cursor, i the count of the loop, n the bytes passed so far.  The
\* operations of the model: DW_OP_const1u, DW_OP_fbreg, DW_OP_call_frame_cfa,
\* the user extensions, and DW_OP_nop, for which the switch has no case.
RECURSIVE ExprLoop(_, _, _, _)
ExprLoop(bs, i, n, len) ==
    IF ~(i < len) THEN [n |-> n, err |-> ""]
    ELSE LET ins == bs[1]
         IN  IF DW_OP_lo_user <= ins /\ ins <= DW_OP_hi_user
             THEN ExprLoop(Drop(bs, 1 + (len - (i + 1))), len,
                           n + 1 + (len - (i + 1)), len)
             ELSE CASE ins = DW_OP_const1u ->
                         ExprLoop(Drop(bs, 2), i + 2, n + 2, len)
                    [] ins = DW_OP_fbreg ->
                         LET size == ReadsLEB128(Drop(bs, 1))[2]
                         IN  ExprLoop(Drop(bs, 1 + size), i + 1 + size, n + 1 + size,
                                      len)
                    [] ins = DW_OP_call_frame_cfa ->
                         ExprLoop(Drop(bs, 1), i + 1, n + 1, len)
                    [] OTHER -> [n |-> n + 1, err |-> "TODO Not decoded op"]

\* case DW_FORM_exprloc: the bytes the cursor moves by, the panic
ReadExprloc(bs) ==
    LET opSize == ReaduLEB128(bs)[1]
        size == ReaduLEB128(bs)[2]
    IN  ExprLoop(Drop(bs, size), 0, size, opSize)

\* The switch on attr.Form for one attribute, bs the bytes at the cursor:
\* the record built so far, the bytes the cursor moves by, the panic.
ReadAttr(attr, tag, bs, info, c, top, tmpFuncs) ==
    CASE attr.Form = DW_FORM_addr ->
           LET funcaddr == IF c.AddressSize \in {2, 4, 8}
                           THEN FromLeToUInt(bs, c.AddressSize) ELSE 0
           IN  [info |-> IF attr.Attr = DW_AT_low_pc
                         THEN [info EXCEPT !.Addr = funcaddr] ELSE info,
                n |-> c.AddressSize, err |-> ""]
      [] attr.Form = DW_FORM_data4 ->
           [info |-> IF attr.Attr = DW_AT_high_pc
                     THEN [info EXCEPT !.Size = FromLeToUInt(bs, 4)] ELSE info,
            n |-> 4, err |-> ""]
      [] attr.Form = DW_FORM_string ->
           LET str == GetString(bs)
           IN  [info |-> IF tag # DW_TAG_subprogram THEN info
                         ELSE IF attr.Attr = DW_AT_name THEN [info EXCEPT !.Name = str]
                         ELSE IF attr.Attr = DW_AT_linkage_name
                         THEN [info EXCEPT !.LinkageName = str]
                         ELSE info,
                n |-> Len(str) + 1,
                err |-> IF tag = DW_TAG_subprogram
                           /\ attr.Attr \notin {DW_AT_name, DW_AT_linkage_name}
                        THEN "not name!" ELSE ""]
      [] attr.Form = DW_FORM_ref4 ->
           LET val == FromLeToUInt(bs, 4)
               refval == top + val
           IN  [info |-> IF attr.Attr = DW_AT_specification /\ refval \in DOMAIN tmpFuncs
                         THEN tmpFuncs[refval] ELSE info,
                n |-> 4, err |-> ""]
      [] attr.Form = DW_FORM_exprloc ->
           [info |-> info, n |-> ReadExprloc(bs).n, err |-> ReadExprloc(bs).err]
      [] attr.Form = DW_FORM_block ->
           [info |-> info, n |-> ReaduLEB128(bs)[2], err |-> ""]
      [] OTHER -> [info |-> info, n |-> 0, err |-> "unknown"]

\* for _, attr := range abbrev.Attrs
RECURSIVE ReadAttrs(_, _, _, _, _, _, _)
ReadAttrs(attrs, tag, bs, info, c, top, tmpFuncs) ==
    IF attrs = << >> THEN [info |-> info, n |-> 0, err |-> ""]
    ELSE LET r == ReadAttr(Head(attrs), tag, bs, info, c, top, tmpFuncs)
         IN  IF r.err # "" THEN r
             ELSE LET s == ReadAttrs(Tail(attrs), tag, Drop(bs, r.n), r.info, c, top,
                                     tmpFuncs)
                  IN  [info |-> s.info, n |-> r.n + s.n, err |-> s.err]

\* The end of an entry: what becomes of cuDbgInfo.Funcs and cppTmpFunc.
CloseDie(tag, info, entryOffset, fs, tmpFuncs) ==
    IF tag # DW_TAG_subprogram THEN [funcs |-> fs, tmp |-> tmpFuncs]
    ELSE IF info.Name = << >> /\ info.Addr \notin DOMAIN fs
    THEN [funcs |-> fs, tmp |-> Put(tmpFuncs, entryOffset, info)]
    ELSE IF info.Addr # 0
    THEN [funcs |-> Put(fs, info.Addr, info), tmp |-> tmpFuncs]
    ELSE [funcs |-> fs, tmp |-> Put(tmpFuncs, entryOffset, info)]

\* ReadDebugInfo: cuEnd
CuEnd(c, off, top) ==
    (IF c.DwarfFormat = DWARF_64BIT_FORMAT THEN off + (c.UnitLength + 8)
     ELSE c.UnitLength + 4) + top

\* ReadDebugInfo: offset += 11
DieWalkStart(off) == off + 11

NoCuh ==
    [UnitLength |-> 0, DwarfFormat |-> 0, Version |-> 0, UnitType |-> 0,
     AddressSize |-> 0, DebugAbbrevOffset |-> 0, size |-> 0, err |-> ""]

NoDie ==
    [id |-> 0, hasLowPc |-> FALSE, lowPc |-> 0, hasSpec |-> FALSE, expr |-> << >>,
     bytes |-> << >>, decl |-> NoFuncInfo]

InfoRest ==
    /\ infoErr = ""
    /\ dbgInfolen = MaxInfoLen
    /\ infoOffset = 0
    /\ cuTop = 0
    /\ cuEnd = 0
    /\ cuh = NoCuh
    /\ cuFuncs = EmptyMap
    /\ cppTmpFunc = EmptyMap
    /\ dbgInfos = << >>
    /\ infoPeek = << >>
    /\ infoLast = "none"
    /\ lastDie = NoDie

InfoInit == infoPc = "cu" /\ InfoRest

InfoIdle == infoPc = "idle" /\ InfoRest

\* The header of the unit at offset is read; the section holds the whole
\* header, and the unit as ReadDebugInfo bounds it.
ReadCuh ==
    /\ infoPc = "cu"
    /\ infoOffset < dbgInfolen
    /\ \E bs \in CuHeaders :
         LET c == NewDwarf32Cuh(bs)
         IN  /\ infoOffset + Len(bs) <= dbgInfolen
             /\ IF c.err # ""
                THEN /\ infoPc' = "panic"
                     /\ infoErr' = c.err
                     /\ UNCHANGED <<infoOffset, cuTop, cuEnd, cuh, cuFuncs, infoPeek>>
                ELSE /\ CuEnd(c, infoOffset, infoOffset) <= dbgInfolen
                     /\ DieWalkStart(infoOffset) <= CuEnd(c, infoOffset, infoOffset)
                     /\ infoPc' = "die"
                     /\ cuTop' = infoOffset
                     /\ cuh' = c
                     /\ cuFuncs' = EmptyMap
                     /\ cuEnd' = CuEnd(c, infoOffset, infoOffset)
                     /\ infoOffset' = DieWalkStart(infoOffset)
                     /\ infoPeek' = Drop(bs, 11)
                     /\ UNCHANGED infoErr
    /\ infoLast' = "cuh"
    /\ lastDie' = NoDie
    /\ UNCHANGED <<dbgInfolen, cppTmpFunc, dbgInfos, lineVars, fmtVars, lebVars, dirVars, abbrVars, arVars>>

\* if id == 0 { offset++; continue }
NullCodes == {<<0>>, <<128, 0>>}

NullEntry ==
    /\ infoPc = "die"
    /\ infoOffset < cuEnd
    /\ \E ex \in NullCodes :
         /\ infoOffset + Len(ex) <= dbgInfolen
         /\ Agree(infoPeek, ex)
         /\ ReaduLEB128(ex)[1] = 0
         /\ infoPeek' = Drop(IF Len(infoPeek) > Len(ex) THEN infoPeek ELSE ex, 1)
    /\ infoOffset' = infoOffset + 1
    /\ infoLast' = "null"
    /\ lastDie' = NoDie
    /\ UNCHANGED <<infoPc, infoErr, dbgInfolen, cuTop, cuEnd, cuh, cuFuncs, cppTmpFunc,
                   dbgInfos, lineVars, fmtVars, lebVars, dirVars, abbrVars, arVars>>

\* The entries the model is run with: the codes of the table and one it does
\* not hold; the values of their attributes.
DieCodes == {1, 2, 3, 4, 5, 6, 7, 8, 9, 10, 11, 12}
DieAddrs == {2}
DieNames == {<<78>>}
DieRefs == {11}
DieSizes == {1}
\* the expressions, from their length on; the byte after the expression is
\* there when an operation reads it
DieExprs == {<<0>>, <<2, 145, 127>>, <<1, 150>>, <<2, 224, 9>>,
             <<1, 8, 5>>}

\* the bytes of the value of an attribute
AttrBytes(form, c, a, name, ref, size, expr) ==
    CASE form = DW_FORM_addr -> LeBytes(a, c.AddressSize)
      [] form = DW_FORM_data4 -> LeBytes(size, 4)
      [] form = DW_FORM_string -> name \o <<0>>
      [] form = DW_FORM_ref4 -> LeBytes(ref, 4)
      [] form = DW_FORM_exprloc -> expr
      [] form = DW_FORM_block -> expr
      [] OTHER -> << >>

RECURSIVE DieBytes(_, _, _, _, _, _, _)
DieBytes(attrs, c, a, name, ref, size, expr) ==
    IF attrs = << >> THEN << >>
    ELSE AttrBytes(Head(attrs).Form, c, a, name, ref, size, expr)
         \o DieBytes(Tail(attrs), c, a, name, ref, size, expr)

HasAttr(abbrev, at) == \E i \in 1..Len(abbrev.Attrs) : abbrev.Attrs[i].Attr = at

\* One entry with a code other than 0: its attributes are read in the
\* order of its abbreviation, and it is closed.
ReadDie ==
    /\ infoPc = "die"
    /\ infoOffset < cuEnd
    /\ \E id \in DieCodes, a \in DieAddrs, name \in DieNames, ref \in DieRefs,
          size \in DieSizes, expr \in DieExprs :
         LET abbrev == AbbrevMap(id)
             ex == <<id>> \o DieBytes(abbrev.Attrs, cuh, a, name, ref, size, expr)
             r == ReadAttrs(abbrev.Attrs, abbrev.Tag, Drop(ex, 1), NoFuncInfo, cuh,
                            cuTop, cppTmpFunc)
             closed == CloseDie(abbrev.Tag, r.info, infoOffset, cuFuncs, cppTmpFunc)
             spec == HasAttr(abbrev, DW_AT_specification)
         IN  /\ infoOffset + Len(ex) <= dbgInfolen
             /\ Agree(infoPeek, ex)
             /\ infoPeek' = Drop(infoPeek, 1 + r.n)
             /\ infoOffset' = infoOffset + 1 + r.n
             /\ lastDie' = [id |-> id,
                            hasLowPc |-> HasAttr(abbrev, DW_AT_low_pc),
                            lowPc |-> IF HasAttr(abbrev, DW_AT_low_pc) THEN a ELSE 0,
                            hasSpec |-> spec,
                            expr |-> IF HasAttr(abbrev, DW_AT_location)
                                     THEN expr ELSE << >>,
                            bytes |-> ex,
                            decl |-> IF spec /\ cuTop + ref \in DOMAIN cppTmpFunc
                                     THEN cppTmpFunc[cuTop + ref] ELSE NoFuncInfo]
             /\ IF r.err # ""
                THEN /\ infoPc' = "panic"
                     /\ infoErr' = r.err
                     /\ UNCHANGED <<cuFuncs, cppTmpFunc>>
                ELSE /\ cuFuncs' = closed.funcs
                     /\ cppTmpFunc' = closed.tmp
                     /\ UNCHANGED <<infoPc, infoErr>>
    /\ infoLast' = "die"
    /\ UNCHANGED <<dbgInfolen, cuTop, cuEnd, cuh, dbgInfos, lineVars, fmtVars, lebVars, dirVars, abbrVars, arVars>>

\* The loop over the entries has ended: dbgInfos = append(dbgInfos,
\* cuDbgInfo), and the locals of the iteration are gone.
CuDone ==
    /\ infoPc = "die"
    /\ ~(infoOffset < cuEnd)
    /\ dbgInfos' = Append(dbgInfos, cuFuncs)
    /\ infoPc' = "cu"
    /\ cuTop' = 0
    /\ cuEnd' = 0
    /\ cuh' = NoCuh
    /\ cuFuncs' = EmptyMap
    /\ infoPeek' = << >>
    /\ infoLast' = "done"
    /\ lastDie' = NoDie
    /\ UNCHANGED <<infoErr, dbgInfolen, infoOffset, cppTmpFunc, lineVars, fmtVars, lebVars, dirVars, abbrVars, arVars>>

\* The section ends at or before offset: ReadDebugInfo returns.
InfoReturn ==
    /\ infoPc = "cu"
    /\ ~(infoOffset < dbgInfolen)
    /\ infoPc' = "return"
    /\ UNCHANGED <<infoErr, dbgInfolen, infoOffset, cuTop, cuEnd, cuh, cuFuncs,
                   cppTmpFunc, dbgInfos, infoPeek, infoLast, lastDie, lineVars,
                   fmtVars, lebVars, dirVars, abbrVars, arVars>>

InfoNext ==
    \/ ReadCuh
    \/ NullEntry
    \/ ReadDie
    \/ CuDone
    \/ InfoReturn

(***************************************************************************)
(* The first 4 bytes of unit_length, in the three functions that read one. *)
(***************************************************************************)
\* the words the model is run with, and the values of the 8 bytes after
FmtHalves == {0, 1, 255, 256, 65279, 65280, 65281, 65534, 65535}
FmtWords == {<<hi, lo>> : hi \in {0, 1, 65534, 65535}, lo \in FmtHalves}
FmtNext8s == {0, 5}

FmtRest ==
    /\ fmtWord = <<0, 0>>
    /\ fmtNext8 = 0
    /\ fmtResult = [DwarfFormat |-> 0, UnitLength |-> <<0, 0>>, size |-> 0, err |-> ""]

FmtInit == fmtSite = "none" /\ FmtRest

FmtIdle == fmtSite = "idle" /\ FmtRest

\* unit_length as the three functions read it: the word itself in the 32-bit
\* format, the 8 bytes after it in the 64-bit format; none of them has a
\* path on which the word is refused
ReadUnitLength(site, fmt, tmp, next8) ==
    /\ fmtSite \in {"none", "cu", "line", "aranges"}
    /\ fmtSite' = site
    /\ fmtWord' = tmp
    /\ fmtNext8' = next8
    /\ fmtResult' = [DwarfFormat |-> fmt,
                     UnitLength |-> IF fmt = DWARF_32BIT_FORMAT THEN tmp ELSE <<0, next8>>,
                     size |-> IF fmt = DWARF_32BIT_FORMAT THEN 4 ELSE 4 + 8,
                     err |-> ""]
    /\ UNCHANGED <<lineVars, infoVars, lebVars, dirVars, abbrVars, arVars>>

\* NewDwarf32Cuh
CuhUnitLength ==
    \E tmp \in FmtWords, n \in FmtNext8s : ReadUnitLength("cu", CuhFormat(tmp), tmp, n)

\* ReadLineInfo
LineInfoUnitLength ==
    \E tmp \in FmtWords, n \in FmtNext8s :
      ReadUnitLength("line", LineInfoFormat(tmp), tmp, n)

\* ReadAranges
ArangesUnitLength ==
    \E tmp \in FmtWords, n \in FmtNext8s :
      ReadUnitLength("aranges", ArangesFormat(tmp), tmp, n)

FmtNext ==
    \/ CuhUnitLength
    \/ LineInfoUnitLength
    \/ ArangesUnitLength

(***************************************************************************)
(* ReaduLEB128 and ReadsLEB128 called on a slice of their own.  The values *)
(* of the model stay below 2^28, far from the 64 bits of the results.      *)
(***************************************************************************)
\* the bytes the slices are made of, and the slices: every sequence of at
\* most MaxLebLen of these bytes
LebByteSet == {0, 1, 38, 63, 64, 89, 127, 128, 129, 142, 155, 192, 229, 241, 255}

\* the canonical encodings of n >= 0 as unsigned and of m as signed LEB128
\* (how the inputs are written)
RECURSIVE EncodeU(_)
EncodeU(n) ==
    IF n < 128 THEN <<n>> ELSE <<128 + (n % 128)>> \o EncodeU(n \div 128)

RECURSIVE EncodeS(_)
EncodeS(m) ==
    LET byte == m % 128
        rest == (m - byte) \div 128
    IN  IF (rest = 0 /\ byte < 64) \/ (rest = -1 /\ byte >= 64) THEN <<byte>>
        ELSE <<128 + byte>> \o EncodeS(rest)

\* the values whose encodings are among the slices
LebValues == (0 - MaxLebVal)..MaxLebVal \cup {16383, 16384, 0 - 8192, 0 - 8193, 624485, 0 - 624485}

RECURSIVE LebSlices(_)
LebSlices(n) ==
    IF n = 0 THEN {<< >>}
    ELSE LET shorter == LebSlices(n - 1)
         IN  shorter \cup {<<b>> \o t : b \in LebByteSet,
                                        t \in {x \in shorter : Len(x) = n - 1}}

\* the slices the functions are called on
LebInputs ==
    LebSlices(MaxLebLen) \cup {EncodeU(n) : n \in {v \in LebValues : v >= 0}}
                         \cup {EncodeS(m) : m \in LebValues}

LebRest ==
    /\ lebBytes = << >>
    /\ lebVal = 0
    /\ lebSize = 0
    /\ lebErr = ""

LebInit == lebFn = "none" /\ LebRest

LebIdle == lebFn = "idle" /\ LebRest

\* val, size := ReaduLEB128(bytes): the function has no error result and
\* no statement that panics
CallReaduLEB128 ==
    /\ lebFn = "none"
    /\ \E bytes \in LebInputs :
         /\ lebBytes' = bytes
         /\ lebVal' = ReaduLEB128(bytes)[1]
         /\ lebSize' = ReaduLEB128(bytes)[2]
    /\ lebFn' = "u"
    /\ lebErr' = ""
    /\ UNCHANGED <<lineVars, infoVars, fmtVars, dirVars, abbrVars, arVars>>

\* val, size := ReadsLEB128(bytes)
CallReadsLEB128 ==
    /\ lebFn = "none"
    /\ \E bytes \in LebInputs :
         /\ lebBytes' = bytes
         /\ lebVal' = ReadsLEB128(bytes)[1]
         /\ lebSize' = ReadsLEB128(bytes)[2]
    /\ lebFn' = "s"
    /\ lebErr' = ""
    /\ UNCHANGED <<lineVars, infoVars, fmtVars, dirVars, abbrVars, arVars>>

LebNext ==
    \/ CallReaduLEB128
    \/ CallReadsLEB128

(***************************************************************************)
(* ReadLineInfo, version 5: the directory entry formats and the            *)
(* directories of a header.  Offsets are counted from                      *)
(* directory_entry_format_count.                                           *)
(***************************************************************************)
\* .debug_line_str the model is run with: "a", then a name of the two bytes
\* 0xC3 0xA9, each followed by 0
DebugLineStr == <<97, 0, 195, 169, 0>>

\* the offsets of the strings of DebugLineStr
LineStrOffsets == {0, 2}

\* the directory names that a header holds in place (DW_FORM_string)
InlineDirNames == {<<100>>}

EntryFormat(typeCode, formCode) == [TypeCode |-> typeCode, FormCode |-> formCode]

\* the lists of directory entry formats the model is run with
DirectoryEntryFormatLists ==
    { <<EntryFormat(DW_LNCT_path, DW_FORM_line_strp)>>,
      <<EntryFormat(DW_LNCT_path, DW_FORM_string)>>,
      <<EntryFormat(DW_LNCT_directory_index, DW_FORM_data1)>> }

\* the bytes of one field of a directory, as a header holds it
DirFieldBytes(fmt, formCode, strOffset, name, idx) ==
    CASE formCode = DW_FORM_line_strp ->
           LeBytes(strOffset, IF fmt = DWARF_32BIT_FORMAT THEN 4 ELSE 8)
      [] formCode = DW_FORM_string -> name \o <<0>>
      [] formCode = DW_FORM_data1 -> <<idx>>
      [] OTHER -> << >>

RECURSIVE DirBytes(_, _, _, _, _)
DirBytes(fmt, formats, strOffset, name, idx) ==
    IF formats = << >> THEN << >>
    ELSE DirFieldBytes(fmt, Head(formats).FormCode, strOffset, name, idx)
         \o DirBytes(fmt, Tail(formats), strOffset, name, idx)

\* The loop over j for one directory, bs the bytes at the cursor: the names
\* appended, the bytes the cursor moves by, the panic.
RECURSIVE ReadDirectoryFields(_, _, _)
ReadDirectoryFields(fmt, formats, bs) ==
    IF formats = << >> THEN [dirs |-> << >>, n |-> 0, err |-> ""]
    ELSE IF Head(formats).TypeCode # DW_LNCT_path
    THEN [dirs |-> << >>, n |-> 0, err |-> "unknown"]
    ELSE LET strp == Head(formats).FormCode = DW_FORM_line_strp
             w == IF fmt = DWARF_32BIT_FORMAT THEN 4 ELSE 8
             strOffset == FromLeToUInt(bs, w)
             dirName == IF strp THEN GetString(Drop(DebugLineStr, strOffset))
                        ELSE << >>
             n == IF strp THEN w ELSE 0
             r == ReadDirectoryFields(fmt, Tail(formats), Drop(bs, n))
         IN  [dirs |-> <<dirName>> \o r.dirs, n |-> n + r.n, err |-> r.err]

DirRest ==
    /\ dirErr = ""
    /\ dirDwarfFormat = 0
    /\ dirFormats = << >>
    /\ dirCount = 0
    /\ dirStart = 0
    /\ dirOffset = 0
    /\ includeDirs = << >>
    /\ dirsWritten = << >>

DirInit == dirPc = "formats" /\ DirRest

DirIdle == dirPc = "idle" /\ DirRest

\* directory_entry_format_count, the pairs of uLEB128 and directories_count
\* are read; each of these numbers is below 128 and takes one byte.
ReadDirectoryEntryFormats ==
    /\ dirPc = "formats"
    /\ \E fmt \in {DWARF_32BIT_FORMAT, DWARF_64BIT_FORMAT},
          formats \in DirectoryEntryFormatLists, count \in 0..MaxDirs :
         /\ dirDwarfFormat' = fmt
         /\ dirFormats' = formats
         /\ dirCount' = count
         /\ dirOffset' = 1 + 2 * Len(formats) + ReaduLEB128(<<count>>)[2]
         /\ dirStart' = 1 + 2 * Len(formats) + ReaduLEB128(<<count>>)[2]
    /\ dirPc' = "dirs"
    /\ UNCHANGED <<dirErr, includeDirs, dirsWritten, lineVars, infoVars, fmtVars,
                   lebVars, abbrVars, arVars>>

\* One iteration of the loop over the directories.
ReadDirectory ==
    /\ dirPc = "dirs"
    /\ Len(dirsWritten) < dirCount
    /\ \E strOffset \in LineStrOffsets, name \in InlineDirNames, idx \in {0} :
         LET ex == DirBytes(dirDwarfFormat, dirFormats, strOffset, name, idx)
             r == ReadDirectoryFields(dirDwarfFormat, dirFormats, ex)
         IN  /\ dirsWritten' = Append(dirsWritten,
                                      [bytes |-> ex, strOffset |-> strOffset])
             /\ IF r.err # ""
                THEN /\ dirPc' = "panic"
                     /\ dirErr' = r.err
                     /\ UNCHANGED <<dirOffset, includeDirs>>
                ELSE /\ dirOffset' = dirOffset + r.n
                     /\ includeDirs' = includeDirs \o r.dirs
                     /\ UNCHANGED <<dirPc, dirErr>>
    /\ UNCHANGED <<dirDwarfFormat, dirFormats, dirCount, dirStart, lineVars,
                   infoVars, fmtVars, lebVars, abbrVars, arVars>>

\* The loop over the directories has ended.
DirectoriesRead ==
    /\ dirPc = "dirs"
    /\ ~(Len(dirsWritten) < dirCount)
    /\ dirPc' = "done"
    /\ UNCHANGED <<dirErr, dirDwarfFormat, dirFormats, dirCount, dirStart,
                   dirOffset, includeDirs, dirsWritten, lineVars, infoVars,
                   fmtVars, lebVars, abbrVars, arVars>>

DirNext ==
    \/ ReadDirectoryEntryFormats
    \/ ReadDirectory
    \/ DirectoriesRead

(***************************************************************************)
(* The specifications.                                                     *)
(***************************************************************************)
(***************************************************************************)
(* ReadAbbrevTbl: the abbreviation table of a unit.                        *)
(***************************************************************************)
\* The declarations the model is run with: the attribute lists, without and
\* with constants of DW_FORM_implicit_const (one negative, one of two
\* bytes of LEB128), under either value of the children byte.
AttrSpec(attr, form, const) == [Attr |-> attr, Form |-> form, Const |-> const]

AbbrevAttrLists ==
    { << >>,
      <<AttrSpec(DW_AT_name, DW_FORM_string, 0)>>,
      <<AttrSpec(DW_AT_decl_file, DW_FORM_implicit_const, 0 - 1)>>,
      <<AttrSpec(DW_AT_name, DW_FORM_string, 0),
        AttrSpec(DW_AT_decl_file, DW_FORM_implicit_const, 2)>>,
      <<AttrSpec(DW_AT_decl_file, DW_FORM_implicit_const, 64),
        AttrSpec(DW_AT_low_pc, DW_FORM_addr, 0)>> }

AbbrevDecls(id) ==
    {[Id |-> id, Tag |-> DW_TAG_subprogram, HasChildren |-> c, Attrs |-> attrs] :
        c \in BOOLEAN, attrs \in AbbrevAttrLists}

\* the tables: at most MaxAbbrevs declarations, with the codes 1, 2, ...
RECURSIVE AbbrevTables(_)
AbbrevTables(n) ==
    IF n = 0 THEN {<< >>}
    ELSE LET shorter == AbbrevTables(n - 1)
         IN  shorter \cup {Append(t, d) : t \in {x \in shorter : Len(x) = n - 1},
                                          d \in AbbrevDecls(n)}

\* what follows the declarations: the code 0, the code 0 and another byte,
\* or the end of the bytes
AbbrevTails == {<<0>>, <<0, 5>>, << >>}

\* the bytes of a table (how the inputs are written): code, tag, children
\* byte, the pairs of attribute and form, a signed LEB128 constant after
\* DW_FORM_implicit_const, and the pair (0, 0)
RECURSIVE AttrSpecBytes(_)
AttrSpecBytes(attrs) ==
    IF attrs = << >> THEN <<0, 0>>
    ELSE LET a == Head(attrs)
         IN  EncodeU(a.Attr) \o EncodeU(a.Form)
             \o (IF a.Form = DW_FORM_implicit_const THEN EncodeS(a.Const) ELSE << >>)
             \o AttrSpecBytes(Tail(attrs))

AbbrevDeclBytes(d) ==
    EncodeU(d.Id) \o EncodeU(d.Tag)
    \o <<IF d.HasChildren THEN DW_CHILDREN_yes ELSE 0>> \o AttrSpecBytes(d.Attrs)

RECURSIVE AbbrevTblBytes(_)
AbbrevTblBytes(ds) ==
    IF ds = << >> THEN << >>
    ELSE AbbrevDeclBytes(Head(ds)) \o AbbrevTblBytes(Tail(ds))

AbbrRest ==
    /\ abPos = 0
    /\ abbrevTbl = << >>

AbbrInit ==
    /\ abPc = "loop"
    /\ AbbrRest
    /\ \E ds \in AbbrevTables(MaxAbbrevs), t \in AbbrevTails :
         /\ abDecls = ds
         /\ abBytes = AbbrevTblBytes(ds) \o t

AbbrIdle == abPc = "idle" /\ AbbrRest /\ abDecls = << >> /\ abBytes = << >>

\* The loop "Read Attributes" from pos on: the attributes read, pos after
\* the pair (0, 0), and the panic of bytes[pos:] behind the end of bytes.
RECURSIVE ReadAbbrevAttrs(_, _, _)
ReadAbbrevAttrs(bytes, pos, attrs) ==
    LET attrCode == ReaduLEB128(Drop(bytes, pos))
        p1 == pos + attrCode[2]
        formCode == ReaduLEB128(Drop(bytes, p1))
        p2 == p1 + formCode[2]
        Const == ReaduLEB128(Drop(bytes, p2))
        failed == [attrs |-> attrs, pos |-> pos, err |-> "SliceBounds"]
    IN  IF pos > Len(bytes) \/ p1 > Len(bytes) THEN failed
        ELSE IF attrCode[1] = 0 /\ formCode[1] = 0
        THEN [attrs |-> attrs, pos |-> p2, err |-> ""]
        ELSE IF formCode[1] = DW_FORM_implicit_const
        THEN IF p2 > Len(bytes) THEN failed
             ELSE ReadAbbrevAttrs(bytes, p2 + Const[2],
                      Append(attrs, [Attr |-> attrCode[1], Form |-> formCode[1],
                                     Const |-> Const[1]]))
        ELSE ReadAbbrevAttrs(bytes, p2,
                 Append(attrs, [Attr |-> attrCode[1], Form |-> formCode[1],
                                Const |-> 0]))

\* One iteration of the loop over the declarations, for a code other than 0.
ReadAbbrevDecl ==
    /\ abPc = "loop"
    /\ abPos < Len(abBytes)
    /\ LET id == ReaduLEB128(Drop(abBytes, abPos))
           p1 == abPos + id[2]
           tag == ReaduLEB128(Drop(abBytes, p1))
           p2 == p1 + tag[2]
           r == ReadAbbrevAttrs(abBytes, p2 + 1, << >>)
       IN  /\ id[1] # 0
           /\ IF p1 > Len(abBytes) \/ p2 >= Len(abBytes) \/ r.err # ""
              THEN /\ abPc' = "panic"
                   /\ UNCHANGED <<abPos, abbrevTbl>>
              ELSE /\ abbrevTbl' = Append(abbrevTbl,
                                      [Id |-> id[1], Tag |-> tag[1],
                                       HasChildren |-> abBytes[p2 + 1] = DW_CHILDREN_yes,
                                       Attrs |-> r.attrs])
                   /\ abPos' = r.pos
                   /\ UNCHANGED abPc
    /\ UNCHANGED <<abBytes, abDecls, lineVars, infoVars, fmtVars, lebVars, dirVars,
                   arVars>>

\* if id == 0 { break }
AbbrevEndCode ==
    /\ abPc = "loop"
    /\ abPos < Len(abBytes)
    /\ LET id == ReaduLEB128(Drop(abBytes, abPos))
       IN  /\ id[1] = 0
           /\ abPos' = abPos + id[2]
    /\ abPc' = "return"
    /\ UNCHANGED <<abBytes, abbrevTbl, abDecls, lineVars, infoVars, fmtVars, lebVars,
                   dirVars, arVars>>

\* pos has reached the end of bytes
AbbrevBytesEnd ==
    /\ abPc = "loop"
    /\ ~(abPos < Len(abBytes))
    /\ abPc' = "return"
    /\ UNCHANGED <<abBytes, abPos, abbrevTbl, abDecls, lineVars, infoVars, fmtVars,
                   lebVars, dirVars, arVars>>

AbbrNext ==
    \/ ReadAbbrevDecl
    \/ AbbrevEndCode
    \/ AbbrevBytesEnd

(***************************************************************************)
(* ReadAranges: the sub-tables of .debug_aranges.                          *)
(***************************************************************************)
\* The sub-tables the model is run with, and the sections made of them.  A
\* sub-table of the 64-bit format is the first of its section: its escape
\* word is not among the bytes that a pair is read from.
ArAddressSizes == {2, 4, 8}
ArDebugInfoOffsets == {0, 7}
ArPairLists == {<< >>, <<<<1, 2>>>>}

ArTableSet(formats) ==
    {[DwarfFormat |-> f, DebugInfoOffset |-> d, AddressSize |-> a, Pairs |-> ps] :
        f \in formats, d \in ArDebugInfoOffsets, a \in ArAddressSizes,
        ps \in ArPairLists}

RECURSIVE ArSections(_)
ArSections(n) ==
    IF n = 1 THEN {<<t>> : t \in ArTableSet({DWARF_32BIT_FORMAT, DWARF_64BIT_FORMAT})}
    ELSE LET shorter == ArSections(n - 1)
         IN  shorter \cup {Append(s, t) : s \in {x \in shorter : Len(x) = n - 1},
                                          t \in ArTableSet({DWARF_32BIT_FORMAT})}

\* the size of the fields of the header of a sub-table: unit_length,
\* version, debug_info_offset, address_size, segment_size
ArHeaderFieldsSize(fmt) ==
    IF fmt = DWARF_64BIT_FORMAT THEN 12 + 2 + 8 + 1 + 1 ELSE 4 + 2 + 4 + 1 + 1

\* the smallest multiple of m at or after n
AlignUp(n, m) == ((n + m - 1) \div m) * m

\* the bytes of a sub-table (how the inputs are written): the header, the
\* padding up to a multiple of 2 * address_size, the pairs and the pair of
\* zeros, every address and length address_size bytes wide
RECURSIVE ArPairBytes(_, _)
ArPairBytes(ps, a) ==
    IF ps = << >> THEN Zeros(2 * a)
    ELSE LeBytes(Head(ps)[1], a) \o LeBytes(Head(ps)[2], a) \o ArPairBytes(Tail(ps), a)

ArTableBytes(t) ==
    LET fields == ArHeaderFieldsSize(t.DwarfFormat)
        first == AlignUp(fields, 2 * t.AddressSize)
        body == LeBytes(2, 2)
                \o LeBytes(t.DebugInfoOffset,
                           IF t.DwarfFormat = DWARF_64BIT_FORMAT THEN 8 ELSE 4)
                \o <<t.AddressSize, 0>>
                \o Zeros(first - fields)
                \o ArPairBytes(t.Pairs, t.AddressSize)
    IN  (IF t.DwarfFormat = DWARF_64BIT_FORMAT
         THEN WordBytes(Escape64) \o LeBytes(Len(body), 8)
         ELSE LeBytes(Len(body), 4)) \o body

RECURSIVE ArSectionBytes(_)
ArSectionBytes(ts) ==
    IF ts = << >> THEN << >>
    ELSE ArTableBytes(Head(ts)) \o ArSectionBytes(Tail(ts))

NoArHdr ==
    [UnitLength |-> 0, DwarfFormat |-> 0, Version |-> 0, DebugInfoOffset |-> 0,
     AddressSize |-> 0, SegmentSize |-> 0]

ArRest ==
    /\ arOffset = 0
    /\ arTop = 0
    /\ arNext = 0
    /\ arHdr = NoArHdr
    /\ arSegments = << >>
    /\ arangeInfos = EmptyMap
    /\ arFirst = 0
    /\ arRead = << >>

ArInit ==
    /\ arPc = "table"
    /\ ArRest
    /\ \E ts \in ArSections(MaxArTables) :
         /\ arTables = ts
         /\ arBin = ArSectionBytes(ts)

ArIdle == arPc = "idle" /\ ArRest /\ arTables = << >> /\ arBin = << >>

\* The header of the sub-table at offset is read, up to the padding.
ReadArangesHeader ==
    /\ arPc = "table"
    /\ arOffset < Len(arBin)
    /\ LET bs == Drop(arBin, arOffset)
           tmp == IF Len(bs) < 4 THEN <<0, 0>> ELSE Word32(bs)
           fmt == ArangesFormat(tmp)
           hdrSize == IF fmt = DWARF_32BIT_FORMAT THEN 4 ELSE 4 + 8
           ul == IF fmt = DWARF_32BIT_FORMAT THEN U32Val(tmp)
                 ELSE FromLeToUInt(Drop(bs, 4), 8)
           version == FromLeToUInt(Drop(bs, hdrSize), 2)
           dio == FromLeToUInt(Drop(bs, hdrSize + 2), 4)
           o2 == arOffset + hdrSize + 2 + 4 + 1 + 1
           addressSize == arBin[o2 - 1]
           alighnmentSize == addressSize
           paddingSize == alighnmentSize - ((o2 - arOffset) % alighnmentSize)
       IN  /\ arTop' = arOffset
           /\ IF o2 > Len(arBin)
              THEN \* bin[offset] behind the end of bin
                   /\ arPc' = "panic"
                   /\ UNCHANGED <<arOffset, arNext, arHdr, arSegments, arFirst>>
              ELSE IF addressSize = 0
              THEN \* (offset-headerTop) % alighnmentSize: division by zero
                   /\ arPc' = "panic"
                   /\ UNCHANGED <<arOffset, arNext, arHdr, arSegments, arFirst>>
              ELSE /\ arPc' = "pairs"
                   /\ arNext' = arOffset + hdrSize + ul
                   /\ arHdr' = [UnitLength |-> ul, DwarfFormat |-> fmt,
                                Version |-> version, DebugInfoOffset |-> dio,
                                AddressSize |-> addressSize,
                                SegmentSize |-> arBin[o2]]
                   /\ arOffset' = o2 + paddingSize
                   /\ arFirst' = o2 + paddingSize
                   /\ arSegments' = << >>
    /\ UNCHANGED <<arBin, arangeInfos, arTables, arRead, lineVars, infoVars, fmtVars,
                   lebVars, dirVars, abbrVars>>

\* the width of the addresses and lengths as the loop over the pairs reads
\* them: 8 bytes for address_size 8, 4 bytes for every other
ArPairWidth(hdr32) == IF hdr32.AddressSize = 8 THEN 8 ELSE 4

\* the pair at offset: address, length, and whether bin[offset:] is behind
\* the end of bin
ArPairAt(bin, off, w) ==
    [address |-> FromLeToUInt(Drop(bin, off), w),
     len |-> FromLeToUInt(Drop(bin, off + w), w),
     beyond |-> off + w > Len(bin)]

\* One iteration of the loop over the pairs, for a pair other than (0, 0).
ReadArangesPair ==
    /\ arPc = "pairs"
    /\ LET w == ArPairWidth(arHdr)
           p == ArPairAt(arBin, arOffset, w)
       IN  IF p.beyond
           THEN /\ arPc' = "panic"
                /\ UNCHANGED <<arOffset, arSegments>>
           ELSE /\ ~(p.address = 0 /\ p.len = 0)
                /\ arOffset' = arOffset + 2 * w
                /\ arSegments' = Append(arSegments,
                                        [Address |-> p.address, Length |-> p.len])
                /\ UNCHANGED arPc
    /\ UNCHANGED <<arBin, arTop, arNext, arHdr, arangeInfos, arFirst, arTables, arRead,
                   lineVars, infoVars, fmtVars, lebVars, dirVars, abbrVars>>

\* The pair (0, 0): the loop over the pairs ends, offset is set to
\* nextHdrTop and the sub-table is stored under its DebugInfoOffset.
ArangesTableEnd ==
    /\ arPc = "pairs"
    /\ LET w == ArPairWidth(arHdr)
           p == ArPairAt(arBin, arOffset, w)
       IN  /\ ~p.beyond
           /\ p.address = 0 /\ p.len = 0
    /\ arOffset' = arNext
    /\ arangeInfos' = Put(arangeInfos, arHdr.DebugInfoOffset,
                          [Header |-> arHdr, Segments |-> arSegments])
    /\ arRead' = Append(arRead, [first |-> arFirst - arTop,
                                 key |-> arHdr.DebugInfoOffset,
                                 segs |-> arSegments])
    /\ arPc' = "table"
    /\ UNCHANGED <<arBin, arTop, arNext, arHdr, arSegments, arFirst, arTables,
                   lineVars, infoVars, fmtVars, lebVars, dirVars, abbrVars>>

\* offset has reached the end of bin
ArangesReturn ==
    /\ arPc = "table"
    /\ ~(arOffset < Len(arBin))
    /\ arPc' = "return"
    /\ UNCHANGED <<arBin, arOffset, arTop, arNext, arHdr, arSegments, arangeInfos,
                   arFirst, arTables, arRead, lineVars, infoVars, fmtVars, lebVars,
                   dirVars, abbrVars>>

ArNext ==
    \/ ReadArangesHeader
    \/ ReadArangesPair
    \/ ArangesTableEnd
    \/ ArangesReturn

InitLine == LineInit /\ InfoIdle /\ FmtIdle /\ LebIdle /\ DirIdle /\ AbbrIdle /\ ArIdle

SpecLine == InitLine /\ [][LineNext]_vars

InitInfo == InfoInit /\ LineIdle /\ FmtIdle /\ LebIdle /\ DirIdle /\ AbbrIdle /\ ArIdle

SpecInfo == InitInfo /\ [][InfoNext]_vars

InitFmt == FmtInit /\ LineIdle /\ InfoIdle /\ LebIdle /\ DirIdle /\ AbbrIdle /\ ArIdle

SpecFmt == InitFmt /\ [][FmtNext]_vars

InitLeb == LebInit /\ LineIdle /\ InfoIdle /\ FmtIdle /\ DirIdle /\ AbbrIdle /\ ArIdle

SpecLeb == InitLeb /\ [][LebNext]_vars

InitDir == DirInit /\ LineIdle /\ InfoIdle /\ FmtIdle /\ LebIdle /\ AbbrIdle /\ ArIdle

SpecDir == InitDir /\ [][DirNext]_vars

InitAbbr == AbbrInit /\ LineIdle /\ InfoIdle /\ FmtIdle /\ LebIdle /\ DirIdle /\ ArIdle

SpecAbbr == InitAbbr /\ [][AbbrNext]_vars

InitAr == ArInit /\ LineIdle /\ InfoIdle /\ FmtIdle /\ LebIdle /\ DirIdle /\ AbbrIdle

SpecAr == InitAr /\ [][ArNext]_vars

(***************************************************************************)
(* The line-number program: properties.                                    *)
(***************************************************************************)
\* the function of the table (index from 1) whose range holds addr, 0 if none
FuncHolding(addr) ==
    IF \E i \in 1..Len(funcs) : funcs[i].Addr <= addr /\ addr < funcs[i].Addr + funcs[i].Size
    THEN CHOOSE i \in 1..Len(funcs) :
           funcs[i].Addr <= addr /\ addr < funcs[i].Addr + funcs[i].Size
    ELSE 0

\* the state after an iteration that has emitted a row (copy, special)
RowEmitted == lastOp \in {"copy", "special"} /\ err # "MissingEndSequence" /\ pc \in {"run", "panic"}

\* a step of the opcode loop that emits a row
RowStep == pc = "run" /\ offset < length /\ lastOp' \in {"copy", "special"}

\* C1: every row emitted by copy or by a special opcode with is_stmt set,
\* whose address lies in the range of a function F, sets
\* F.lines[row.line] = row.address: F is chosen by the row's own address.
C1_RowRecordedInItsFunction ==
    (RowEmitted /\ pc = "run" /\ lnsm.IsStmt /\ FuncHolding(lnsm.Address) # 0) =>
        LET F == funcs[FuncHolding(lnsm.Address)]
        IN  /\ lnsm.Line \in DOMAIN F.LineAddrs
            /\ F.LineAddrs[lnsm.Line].Addr = lnsm.Address

\* C2: every address stored in the lines map of a function F lies in
\* [F.addr, F.addr + F.size).
C2_LineAddrsInsideFunction ==
    \A i \in 1..Len(funcs) : \A l \in DOMAIN funcs[i].LineAddrs :
        /\ funcs[i].Addr <= funcs[i].LineAddrs[l].Addr
        /\ funcs[i].LineAddrs[l].Addr < funcs[i].Addr + funcs[i].Size

\* the size of the initial-length field of a unit: 4 bytes, or 4 + 8
InitialLengthSize(fmt) == IF fmt = DWARF_64BIT_FORMAT THEN 12 ELSE 4

\* C3: a line program executed to completion leaves the cursor at the start
\* of the unit + the size of the initial-length field + unit_length, and the
\* next header is read there, in the 32-bit and in the 64-bit format.
C3_CursorEndsAtUnitEnd ==
    [][(pc = "run" /\ ~(offset < length) /\ endOfSeq) =>
         /\ lnpStart + offset =
              hdrOffset + InitialLengthSize(hdr.DwarfFormat) + hdr.UnitLength
         /\ hdrOffset' =
              hdrOffset + InitialLengthSize(hdr.DwarfFormat) + hdr.UnitLength]_vars

FileEntryOf(version, f) == IF version >= 5 THEN f ELSE f - 1

\* C8: when a row is attached to a function, its file register f selects
\* entry f - 1 of the file table under version <= 4 and entry f under
\* version 5; f = 0 is an error under version <= 4 and valid under version 5.
C8_FileRegisterSelectsEntry ==
    (RowEmitted /\ lnsm.IsStmt /\ GetFuncIdxByAddr(funcs, curFuncAddr) >= 0) =>
        LET i == FileEntryOf(hdr.Version, lnsm.File)
            F == funcs[GetFuncIdxByAddr(funcs, curFuncAddr) + 1]
        IN  IF i >= 0 /\ i < Len(hdr.Files)
            THEN pc = "run" /\ F.SrcFileName = hdr.Files[i + 1].Name
            ELSE pc = "panic"

\* C9: a row whose address belongs to no function raises no error and
\* changes no function record, whatever the file and line registers hold,
\* and the program goes on with the next opcode.
C9_RowOutsideFunctionsIgnored ==
    [][(RowStep /\ FuncHolding(lnsm'.Address) = 0) =>
         /\ err' = ""
         /\ pc' = "run"
         /\ funcs' = funcs]_vars

(***************************************************************************)
(* .debug_info and unit_length: properties.                                *)
(***************************************************************************)
\* the size of the header of a unit: unit_length, version, under version 5
\* unit_type, address_size, debug_abbrev_offset (4 or 8 bytes), and the
\* unit id, or the type signature and type offset, of the unit types that
\* have them
CuHeaderSize(c) ==
    LET w == IF c.DwarfFormat = DWARF_64BIT_FORMAT THEN 8 ELSE 4
    IN  InitialLengthSize(c.DwarfFormat) + 2 + w + 1
        + (IF c.Version < 5 THEN 0
           ELSE 1 + (IF c.UnitType \in {DW_UT_skeleton, DW_UT_split_compile} THEN 8
                     ELSE IF c.UnitType \in {DW_UT_type, DW_UT_split_type} THEN 8 + w
                     ELSE 0))

\* C4: the walk over the entries of a unit starts at the first byte after
\* the header of the unit and is bounded by CU end = start of the header +
\* unit_length + 4 (32-bit format) or + 12 (64-bit format), whatever the
\* version (2 to 5) and the unit type.
C4_DieWalkBounds ==
    (infoPc = "die" /\ infoLast = "cuh") =>
        /\ infoOffset = cuTop + CuHeaderSize(cuh)
        /\ cuEnd = cuTop + cuh.UnitLength + InitialLengthSize(cuh.DwarfFormat)

\* a word of unit_length in 0xFFFFFF00..0xFFFFFFFE
ReservedWord(w) == ~U32Less(w, ReservedLow) /\ w # Escape64

\* C7: in a unit_length field a first word below 0xFFFFFF00 selects the
\* 32-bit format with that length, 0xFFFFFFFF selects the 64-bit format
\* with the length in the next 8 bytes, and every other word from
\* 0xFFFFFF00 on is refused with an error.
C7_UnitLengthFormats ==
    fmtSite \in {"cu", "line", "aranges"} =>
        /\ U32Less(fmtWord, ReservedLow) =>
              /\ fmtResult.err = ""
              /\ fmtResult.DwarfFormat = DWARF_32BIT_FORMAT
              /\ fmtResult.UnitLength = fmtWord
        /\ fmtWord = Escape64 =>
              /\ fmtResult.err = ""
              /\ fmtResult.DwarfFormat = DWARF_64BIT_FORMAT
              /\ fmtResult.UnitLength = <<0, fmtNext8>>
        /\ ReservedWord(fmtWord) => fmtResult.err # ""

\* C10: a subprogram entry with DW_AT_specification naming an earlier
\* declaration (address 0, name N) and DW_AT_low_pc = A, A # 0, is recorded
\* in the functions of the unit under A with name N and address A, in
\* whichever order its abbreviation lists the two attributes.
C10_DefinitionRecordedUnderLowPc ==
    (/\ infoPc = "die"
     /\ infoLast = "die"
     /\ AbbrevMap(lastDie.id).Tag = DW_TAG_subprogram
     /\ lastDie.hasSpec
     /\ lastDie.hasLowPc
     /\ lastDie.lowPc # 0
     /\ lastDie.decl.Name # << >>
     /\ lastDie.decl.Addr = 0) =>
        /\ lastDie.lowPc \in DOMAIN cuFuncs
        /\ cuFuncs[lastDie.lowPc].Name = lastDie.decl.Name
        /\ cuFuncs[lastDie.lowPc].Addr = lastDie.lowPc


\* the abbreviation of code id uses a form that the walker has no case for
UsesUnknownForm(id) ==
    \E i \in 1..Len(AbbrevMap(id).Attrs) :
        AbbrevMap(id).Attrs[i].Form \notin
            {DW_FORM_addr, DW_FORM_data4, DW_FORM_string, DW_FORM_ref4,
             DW_FORM_exprloc, DW_FORM_block}

\* the code id is absent from the abbreviation table of the unit
MissingAbbrev(id) == \A i \in 1..Len(AbbrevTbl) : AbbrevTbl[i].Id # id

\* C11: an entry whose code is absent from the table of the unit, or whose
\* abbreviation uses a form outside the closed set, abandons only its unit:
\* the cursor moves to the end of the unit, no error ends the decoding, and
\* the functions of the units decoded before are kept.
C11_BadEntryAbandonsOnlyItsUnit ==
    [][(infoPc = "die" /\ infoLast' = "die"
        /\ (MissingAbbrev(lastDie'.id) \/ UsesUnknownForm(lastDie'.id))) =>
         /\ infoPc' = "die"
         /\ infoErr' = ""
         /\ infoOffset' = cuEnd
         /\ dbgInfos' = dbgInfos]_vars


(***************************************************************************)
(* LEB128: properties.                                                     *)
(***************************************************************************)
\* bs holds a terminating byte (high bit clear)
HasTerminator(bs) == \E i \in 1..Len(bs) : bs[i] < 128

\* the position (from 1) of the first terminating byte of bs
FirstTerminator(bs) ==
    CHOOSE i \in 1..Len(bs) : bs[i] < 128 /\ \A j \in 1..(i - 1) : bs[j] >= 128

\* the value whose bits [7i, 7i+7) are the low 7 bits of byte i (from 0), for
\* the first k bytes of bs
RECURSIVE BitGroups(_, _)
BitGroups(bs, k) ==
    IF k = 0 THEN 0 ELSE BitGroups(bs, k - 1) + (bs[k] % 128) * Pow(2, 7 * (k - 1))

\* C12: on a slice that holds a terminating byte, ReaduLEB128 returns the
\* value whose bits [7i, 7i+7) are the low 7 bits of byte i, and the count of
\* the bytes up to and including the terminating byte; [0x00] gives (0, 1),
\* [0x7F] gives (127, 1), [0x80, 0x01] gives (128, 2) and
\* [0xE5, 0x8E, 0x26] gives (624485, 3).
C12_UnsignedDecodesBitGroups ==
    (lebFn = "u" /\ HasTerminator(lebBytes)) =>
        /\ lebErr = ""
        /\ lebVal = BitGroups(lebBytes, FirstTerminator(lebBytes))
        /\ lebSize = FirstTerminator(lebBytes)
        /\ (lebBytes = <<0>> => lebVal = 0 /\ lebSize = 1)
        /\ (lebBytes = <<127>> => lebVal = 127 /\ lebSize = 1)
        /\ (lebBytes = <<128, 1>> => lebVal = 128 /\ lebSize = 2)
        /\ (lebBytes = <<229, 142, 38>> => lebVal = 624485 /\ lebSize = 3)

\* C12: ReaduLEB128 has returned from [0xE5, 0x8E, 0x26]
C12_Witness ==
    /\ lebFn = "u"
    /\ lebBytes = <<229, 142, 38>>
    /\ lebVal = 624485
    /\ lebSize = 3


\* C13: decoding the canonical encoding of a value returns the value and the
\* length of the encoding, for ReaduLEB128 on n >= 0 and for ReadsLEB128 on
\* m of either sign; signed [0xC0, 0x00] gives 64 and [0x9B, 0xF1, 0x59]
\* gives -624485.
C13_DecodeOfEncodeIsIdentity ==
    /\ \A n \in {v \in LebValues : v >= 0} :
         (lebFn = "u" /\ lebBytes = EncodeU(n)) =>
             lebErr = "" /\ lebVal = n /\ lebSize = Len(lebBytes)
    /\ \A m \in LebValues :
         (lebFn = "s" /\ lebBytes = EncodeS(m)) =>
             lebErr = "" /\ lebVal = m /\ lebSize = Len(lebBytes)
    /\ (lebFn = "s" /\ lebBytes = <<192, 0>> => lebVal = 64 /\ lebSize = 2)
    /\ (lebFn = "s" /\ lebBytes = <<155, 241, 89>> => lebVal = 0 - 624485 /\ lebSize = 3)

\* C13: ReadsLEB128 has returned from the encoding of -624485
C13_Witness ==
    /\ lebFn = "s"
    /\ lebBytes = EncodeS(0 - 624485)
    /\ lebBytes = <<155, 241, 89>>
    /\ lebVal = 0 - 624485
    /\ lebSize = 3

\* the slice ends while the continuation bit of its last byte is set (the
\* empty slice included)
EndsInContinuation(bs) == ~HasTerminator(bs)

\* C14: when the slice ends while the continuation bit of its last byte is
\* still set, the unsigned decoder fails with Truncated and returns no value.
C14_TruncatedInputFails ==
    (lebFn = "u" /\ EndsInContinuation(lebBytes)) => lebErr = "Truncated"


(***************************************************************************)
(* The directories of a version 5 header: properties.                      *)
(***************************************************************************)
\* the bytes of sec from off up to the first 0
RECURSIVE NulString(_, _)
NulString(sec, off) ==
    IF off >= Len(sec) \/ sec[off + 1] = 0 THEN << >>
    ELSE <<sec[off + 1]>> \o NulString(sec, off + 1)

\* the bytes that the first k directories take in the header
RECURSIVE WrittenSize(_)
WrittenSize(k) == IF k = 0 THEN 0 ELSE WrittenSize(k - 1) + Len(dirsWritten[k].bytes)

\* C15: once the N directories of a version 5 header are read, the list has
\* exactly N entries in the order of the header, the cursor has moved by the
\* size of the form of every field, and a DW_LNCT_path of form
\* DW_FORM_line_strp is the NUL-terminated string of .debug_line_str at the
\* offset that the entry holds.
C15_DirectoriesDecoded ==
    (dirPc = "done" /\ \A j \in 1..Len(dirFormats) : dirFormats[j].TypeCode = DW_LNCT_path) =>
        /\ dirErr = ""
        /\ Len(includeDirs) = dirCount
        /\ dirOffset = dirStart + WrittenSize(dirCount)
        /\ \A i \in 1..dirCount :
             dirFormats[1].FormCode = DW_FORM_line_strp =>
                 includeDirs[i] = NulString(DebugLineStr, dirsWritten[i].strOffset)


(***************************************************************************)
(* DW_FORM_exprloc: properties.                                            *)
(***************************************************************************)
\* the last entry read holds an expression, its only attribute: the
\* attribute starts one byte (the code of the entry) before the cursor of
\* the entry
ExprEntryRead == infoLast = "die" /\ lastDie.expr # << >>

\* C16: after a DW_FORM_exprloc has been processed without error, the
\* cursor stands at the start of the attribute + the size of its uLEB128
\* length + the declared length; operations that decode to another count of
\* bytes are an error and do not leave the cursor elsewhere.
C16_ExprlocCursorAtDeclaredEnd ==
    [][(infoPc = "die" /\ ExprEntryRead' /\ infoErr' = "") =>
         infoOffset' = (infoOffset + 1) + ReaduLEB128(lastDie'.expr)[2]
                       + ReaduLEB128(lastDie'.expr)[1]]_vars


(***************************************************************************)
(* The line-number program: the arithmetic of the opcodes, end_sequence    *)
(* and the initial registers.                                              *)
(***************************************************************************)
\* the registers of a row as addFuncAddrLineInfo receives them
RowOf(sm) ==
    [emitted |-> TRUE, Address |-> sm.Address, Line |-> sm.Line,
     EndSequence |-> sm.EndSequence]

\* C17: a special opcode adds ((opcode - opcode_base) div line_range) *
\* min_inst_length to the address and line_base + ((opcode - opcode_base)
\* mod line_range) to the line, computed without truncation to 8 bits, and
\* then emits a row.
C17_SpecialOpcodeAdvance ==
    [][(pc = "run" /\ offset < length /\ lastOp' = "special"
        /\ hdr.LineRange >= 1) =>
         LET adj == lastOpcode' - hdr.OpcodeBase
         IN  /\ lnsm'.Address =
                  lnsm.Address + (adj \div hdr.LineRange) * hdr.MinInstLength
             /\ lnsm'.Line = lnsm.Line + hdr.LineBase + (adj % hdr.LineRange)
             /\ (lnsm'.IsStmt => lastRow' = RowOf(lnsm'))]_vars

\* C18: DW_LNS_const_add_pc adds ((255 - opcode_base) div line_range) *
\* min_inst_length to the address, leaves the line as it is and emits no row.
C18_ConstAddPcAdvance ==
    [][(pc = "run" /\ offset < length /\ lastOp' = "const_add_pc") =>
         /\ lnsm'.Address =
              lnsm.Address
              + ((255 - hdr.OpcodeBase) \div hdr.LineRange) * hdr.MinInstLength
         /\ lnsm'.Line = lnsm.Line
         /\ lastRow' = NoRow]_vars

\* C19: DW_LNE_end_sequence emits one row that carries end_sequence = true
\* and the registers as they stood before the reset, and then puts the
\* registers back to their initial values.
C19_EndSequenceEmitsItsRow ==
    [][(pc = "run" /\ offset < length /\ lastOp' = "end_sequence"
        /\ lnsm.IsStmt) =>
         /\ lastRow' = [emitted |-> TRUE, Address |-> lnsm.Address,
                        Line |-> lnsm.Line, EndSequence |-> TRUE]
         /\ lnsm' = NewLnsm(hdr.DefaultIsStmt)]_vars

\* the registers that the specification starts a sequence with
InitialRegisters(defaultIsStmt) ==
    [Address |-> 0, OpIndex |-> 0, File |-> 1, Line |-> 1, Column |-> 0,
     IsStmt |-> (defaultIsStmt # 0), BasicBlock |-> FALSE,
     PrologueEnd |-> FALSE, EndSequence |-> FALSE, EpilogueBegin |-> FALSE,
     Isa |-> 0, Discriminator |-> 0]

\* C20: at the start of a line program and right after DW_LNE_end_sequence
\* the registers have their initial values, is_stmt being true for every
\* default_is_stmt other than 0.
C20_RegistersStartAtInitialValues ==
    (pc = "run" /\ lastOp \in {"none", "end_sequence"}) =>
        lnsm = InitialRegisters(hdr.DefaultIsStmt)


(***************************************************************************)
(* The line-number program: unknown opcodes and the vendor range.          *)
(***************************************************************************)
\* the bytes of the uLEB128 length of the extended opcode that the last
\* iteration has read
LastLength ==
    IF Len(lastEx) >= 2 /\ lastEx[1] = 0 /\ HasTerminator(Tail(lastEx))
    THEN SubSeq(lastEx, 2, 1 + FirstTerminator(Tail(lastEx)))
    ELSE << >>

\* the sub-opcode of this extended opcode, the byte after its length
LastSubOpcode ==
    IF LastLength # << >> /\ Len(lastEx) >= Len(LastLength) + 2
    THEN lastEx[Len(LastLength) + 2]
    ELSE -1

\* the iteration has changed no register and has emitted no row
NoRegisterChanged == lnsm' = lnsm /\ lastRow' = NoRow /\ funcs' = funcs

\* C21: an extended sub-opcode that is not end_sequence, set_address,
\* define_file, set_discriminator or of the vendor range, and a standard
\* opcode in 1..opcode_base-1 that is not one of the twelve defined, end the
\* decoding with a fatal error; they change no register and emit no row.
C21_UnknownOpcodeIsFatal ==
    [][(pc = "run" /\ offset < length /\ lastOp' # "ext_truncated"
        /\ \/ /\ lastOpcode' = 0
              /\ LastSubOpcode' \notin {DW_LNE_end_sequence, DW_LNE_set_address,
                                        DW_LNE_define_file, DW_LNE_set_discriminator}
              /\ LastSubOpcode' \notin DW_LNE_lo_user..DW_LNE_hi_user
           \/ /\ lastOpcode' > DW_LNS_set_isa
              /\ lastOpcode' < hdr.OpcodeBase) =>
         /\ pc' = "panic"
         /\ NoRegisterChanged]_vars

\* C22: an extended sub-opcode of the vendor range DW_LNE_lo_user (0x80) to
\* DW_LNE_hi_user (0xFF) skips length - 1 bytes of operands, changes no
\* register, emits no row and raises no error.
C22_VendorRangeSkipped ==
    [][(pc = "run" /\ offset < length /\ lastOp' # "ext_truncated"
        /\ lastOpcode' = 0
        /\ LastSubOpcode' \in DW_LNE_lo_user..DW_LNE_hi_user) =>
         /\ pc' = "run"
         /\ err' = ""
         /\ offset' = offset + 1 + Len(LastLength') + 1
                        + (ReaduLEB128U64(LastLength')[1] - 1)
         /\ NoRegisterChanged]_vars


(***************************************************************************)
(* The entries of a unit: the size of the forms, and the function map.     *)
(***************************************************************************)
\* the size of the value of an attribute of the given form in the form
\* table, bs the bytes from its first byte on
FormSize(form, c, bs) ==
    CASE form = DW_FORM_addr -> c.AddressSize
      [] form = DW_FORM_data4 -> 4
      [] form = DW_FORM_ref4 -> 4
      [] form = DW_FORM_string -> Len(NulString(bs, 0)) + 1
      [] form \in {DW_FORM_block, DW_FORM_exprloc} ->
           ReaduLEB128(bs)[2] + ReaduLEB128(bs)[1]
      [] OTHER -> 0

\* the sum of the sizes of the forms of attrs over the bytes bs
RECURSIVE FormSizes(_, _, _)
FormSizes(attrs, c, bs) ==
    IF attrs = << >> THEN 0
    ELSE LET n == FormSize(Head(attrs).Form, c, bs)
         IN  n + FormSizes(Tail(attrs), c, Drop(bs, n))

\* every form of the abbreviation id is one of forms
UsesOnlyForms(id, forms) ==
    /\ ~MissingAbbrev(id)
    /\ \A i \in 1..Len(AbbrevMap(id).Attrs) : AbbrevMap(id).Attrs[i].Form \in forms

\* the entry that the last step has read
EntryRead == infoPc = "die" /\ infoLast' = "die"

\* C23: the bytes that an attribute takes depend on its form alone, not on
\* the tag of the entry or on the attribute: an entry whose forms are
\* DW_FORM_addr, DW_FORM_data4, DW_FORM_ref4 and DW_FORM_string moves the
\* cursor by the sizes of these forms whatever its tag and attributes, and
\* the walk goes on without error.
C23_SizeDependsOnFormOnly ==
    [][(EntryRead /\ UsesOnlyForms(lastDie'.id, {DW_FORM_addr, DW_FORM_data4,
                                                 DW_FORM_ref4, DW_FORM_string})) =>
         /\ infoErr' = ""
         /\ infoPc' = "die"
         /\ infoOffset' = infoOffset + 1
                + FormSizes(AbbrevMap(lastDie'.id).Attrs, cuh, Drop(lastDie'.bytes, 1))]_vars

\* C24: for every form of the form table the cursor moves by the size in
\* the table; for DW_FORM_block this is the uLEB128 length and the payload
\* that it declares.
C24_CursorAdvancesByFormSize ==
    [][(EntryRead /\ infoErr' = ""
        /\ UsesOnlyForms(lastDie'.id, {DW_FORM_addr, DW_FORM_data4, DW_FORM_ref4,
                                       DW_FORM_string, DW_FORM_block})) =>
         infoOffset' = infoOffset + 1
             + FormSizes(AbbrevMap(lastDie'.id).Attrs, cuh, Drop(lastDie'.bytes, 1))]_vars

\* C27: a subprogram with a name that is in the function map of a unit at
\* an address is not replaced by a later subprogram of the unit without a
\* name at this address.
C27_NamedFunctionNotReplaced ==
    [][(infoPc = "die" /\ infoPc' = "die") =>
         \A a \in DOMAIN cuFuncs :
             cuFuncs[a].Name # << >> =>
                 a \in DOMAIN cuFuncs' /\ cuFuncs'[a].Name # << >>]_vars


(***************************************************************************)
(* The line-number program and the function table of the ELF object.       *)
(***************************************************************************)
\* the index (from 1) of the function that the lookup of the last iteration
\* has found in the table fs, 0 when there is none
FuncFound(fs, funcAddr) == GetFuncIdxByAddr(fs, funcAddr) + 1

\* C28: a line-number program changes, in the function table, only the
\* SrcDirName, SrcFileName and LineAddrs of the function found for a row
\* that is emitted: the count of the functions, the Name, Addr, Size and
\* SecName of every function and every other function stay as they are.
C28_OnlyLineFieldsOfFoundFunctionChange ==
    [][/\ Len(funcs') = Len(funcs)
       /\ \A i \in 1..Len(funcs) :
            /\ funcs'[i].Name = funcs[i].Name
            /\ funcs'[i].Addr = funcs[i].Addr
            /\ funcs'[i].Size = funcs[i].Size
            /\ funcs'[i].SecName = funcs[i].SecName
            /\ funcs'[i] # funcs[i] =>
                  /\ lastOp' \in {"copy", "special"}
                  /\ lastRow'.emitted
                  /\ i = FuncFound(funcs, curFuncAddr')]_vars

\* C28: a row has been stored in a function, with its file name
C28_Witness ==
    /\ pc = "run"
    /\ lastRow.emitted
    /\ \E i \in 1..Len(funcs) :
         /\ i = FuncFound(funcs, curFuncAddr)
         /\ funcs[i].SrcFileName # ""
         /\ lastRow.Line \in DOMAIN funcs[i].LineAddrs

\* C29: every entry of the LineAddrs of a function under the key L has
\* Line = L and IsStmt = TRUE, and a copy or special opcode that runs while
\* is_stmt is false leaves every LineAddrs as it is.
C29_LineAddrsKeyedByLineOfStmtRows ==
    [][/\ \A i \in 1..Len(funcs') : \A l \in DOMAIN funcs'[i].LineAddrs :
            /\ funcs'[i].LineAddrs[l].Line = l
            /\ funcs'[i].LineAddrs[l].IsStmt
       /\ (pc = "run" /\ lastOp' \in {"copy", "special"} /\ ~lnsm'.IsStmt) =>
             funcs' = funcs]_vars

\* C29: after a row was stored, negate_stmt has cleared is_stmt and a copy or
\* special opcode has run inside a function without storing its row
C29_Witness ==
    /\ pc = "run"
    /\ lastOp \in {"copy", "special"}
    /\ ~lnsm.IsStmt
    /\ hdr.DefaultIsStmt = 1
    /\ FuncFound(funcs, curFuncAddr) # 0
    /\ \E i \in 1..Len(funcs) : DOMAIN funcs[i].LineAddrs # {}
    /\ lnsm.Line \notin DOMAIN funcs[FuncFound(funcs, curFuncAddr)].LineAddrs


(***************************************************************************)
(* The line-number program: termination.                                   *)
(***************************************************************************)
\* C30: every iteration of the opcode loop that does not fail moves the
\* cursor strictly forward, also for an extended opcode whose declared
\* length is not the count of the bytes that its sub-opcode takes, so that
\* the loop ends on every program.
C30_CursorMovesForward ==
    [][(pc = "run" /\ offset < length /\ pc' = "run") => offset' > offset]_vars


(***************************************************************************)
(* ReadAbbrevTbl and ReadAranges.                                          *)
(***************************************************************************)
\* C25: ReadAbbrevTbl returns the declarations before the first code 0, in
\* the order of the table, each with its pairs of attribute and form in
\* their order up to the pair (0, 0), and the constant after
\* DW_FORM_implicit_const as the signed LEB128 value that was written.
C25_AbbrevTblAsWritten == abPc = "return" => abbrevTbl = abDecls

\* what is stored of the sub-table t: the offset of its first pair from the
\* start of the sub-table, the key, the pairs
ArExpected(t) ==
    [first |-> AlignUp(ArHeaderFieldsSize(t.DwarfFormat), 2 * t.AddressSize),
     key |-> t.DebugInfoOffset,
     segs |-> [i \in 1..Len(t.Pairs) |->
                 [Address |-> t.Pairs[i][1], Length |-> t.Pairs[i][2]]]]

\* C26: of every sub-table of .debug_aranges, in the 32-bit and the 64-bit
\* format and for every address size, the first pair is read at the
\* smallest offset at or after the header fields that is a multiple of
\* 2 * address_size, the pairs are read up to the pair (0, 0), and the list
\* is stored under debug_info_offset.
C26_ArangesPairsRead ==
    /\ Len(arRead) <= Len(arTables)
    /\ \A k \in 1..Len(arRead) :
         k <= Len(arTables) =>
            /\ arRead[k] = ArExpected(arTables[k])
            /\ arRead[k].key \in DOMAIN arangeInfos
    /\ arPc \in {"return", "panic"} => Len(arRead) = Len(arTables)

====
